---- MODULE Spec2Model ----
(***************************************************************************)
(* State-machine model of the UTEXO transfer orchestrator (UTEXOWallet),   *)
(* the WalletManager it delegates to, and the bridge API client.           *)
(* The RGB wallet engine (rgb-lib), the signing engine (bdk) and the       *)
(* bridge HTTP service are external: each call into them is one atomic     *)
(* step whose outcome (success or failure) is chosen nondeterministically. *)
(***************************************************************************)
EXTENDS Integers, Sequences, FiniteSets, TLC

\* ------------------------------------------------------------------------
\* Bounds of the model
\* ------------------------------------------------------------------------
MaxOps == 2            \* operation invocations in one behaviour
MaxPosts == 2          \* bridge-in-signature requests the bridge accepts
MaxReceives == 2       \* receive invoices the wallet engine issues
MaxBroadcast == 2      \* signed transactions the wallet engine accepts

NULL == "null"

\* ------------------------------------------------------------------------
\* Decimal strings (sequences of one-character strings) and JS numbers
\* ------------------------------------------------------------------------
Digit == {"0", "1", "2", "3", "4", "5", "6", "7", "8", "9"}

DigitVal(c) ==
    CASE c = "0" -> 0 [] c = "1" -> 1 [] c = "2" -> 2 [] c = "3" -> 3
      [] c = "4" -> 4 [] c = "5" -> 5 [] c = "6" -> 6 [] c = "7" -> 7
      [] c = "8" -> 8 [] c = "9" -> 9

DigitChar(d) ==
    CASE d = 0 -> "0" [] d = 1 -> "1" [] d = 2 -> "2" [] d = 3 -> "3"
      [] d = 4 -> "4" [] d = 5 -> "5" [] d = 6 -> "6" [] d = 7 -> "7"
      [] d = 8 -> "8" [] d = 9 -> "9"

\* index of the first occurrence of c in s, 0 when absent
IndexOf(s, c) ==
    IF \E i \in 1..Len(s) : s[i] = c
    THEN CHOOSE i \in 1..Len(s) : s[i] = c /\ \A j \in 1..(i - 1) : s[j] # c
    ELSE 0

\* s.slice(from) with a 1-based start
SliceFrom(s, from) == IF from > Len(s) THEN << >> ELSE SubSeq(s, from, Len(s))

\* s.slice(0, n)
SliceTo(s, n) == IF n >= Len(s) THEN s ELSE SubSeq(s, 1, n)

\* "0".repeat(n)
RECURSIVE Zeros(_)
Zeros(n) == IF n <= 0 THEN << >> ELSE <<"0">> \o Zeros(n - 1)

\* s.split(".")[0]
SplitFirst(s) ==
    IF IndexOf(s, ".") = 0 THEN s ELSE SubSeq(s, 1, IndexOf(s, ".") - 1)

\* s.split(".")[1], defaulting to "" when there is no second segment
SplitSecond(s) ==
    IF IndexOf(s, ".") = 0 THEN << >>
    ELSE SplitFirst(SliceFrom(s, IndexOf(s, ".") + 1))

AllDigits(s) == \A i \in 1..Len(s) : s[i] \in Digit

RECURSIVE StripZeros(_)
StripZeros(s) ==
    IF Len(s) > 1 /\ s[1] = "0" THEN StripZeros(Tail(s)) ELSE s

\* decimal digits of Number.MAX_SAFE_INTEGER (2^53 - 1)
MAX_SAFE_INTEGER_DIGITS ==
    <<"9", "0", "0", "7", "1", "9", "9", "2", "5", "4", "7", "4", "0", "9", "9", "1">>

RECURSIVE LexLeq(_, _)
LexLeq(a, b) ==
    IF Len(a) = 0 THEN TRUE
    ELSE IF DigitVal(a[1]) < DigitVal(b[1]) THEN TRUE
    ELSE IF DigitVal(a[1]) > DigitVal(b[1]) THEN FALSE
    ELSE LexLeq(Tail(a), Tail(b))

\* the magnitude written by the digit string d is at most 2^53 - 1
WithinSafe(d) ==
    LET n == StripZeros(d)
    IN  \/ Len(n) < Len(MAX_SAFE_INTEGER_DIGITS)
        \/ Len(n) = Len(MAX_SAFE_INTEGER_DIGITS) /\ LexLeq(n, MAX_SAFE_INTEGER_DIGITS)

RECURSIVE DigitsValue(_)
DigitsValue(d) ==
    IF Len(d) = 0 THEN 0
    ELSE DigitsValue(SubSeq(d, 1, Len(d) - 1)) * 10 + DigitVal(d[Len(d)])

\* Number(str) followed by Number.isSafeInteger: the string is an optional
\* minus sign and decimal digits; anything else is NaN
NumberIsSafeInteger(str) ==
    LET body == IF Len(str) > 0 /\ str[1] = "-" THEN Tail(str) ELSE str
    IN  Len(body) > 0 /\ AllDigits(body) /\ WithinSafe(body)

NumberOf(str) ==
    IF Len(str) > 0 /\ str[1] = "-" THEN 0 - DigitsValue(Tail(str))
    ELSE DigitsValue(str)

\* a conversion that scales the integer part and drops the fraction
toUnitsNumber_DropsFraction(value, precision) ==
    LET s == value
        neg == Len(s) > 0 /\ s[1] = "-"
        body == IF neg THEN Tail(s) ELSE s
        iRaw == SplitFirst(body)
        unitsStr == (IF Len(iRaw) = 0 THEN <<"0">> ELSE iRaw) \o Zeros(precision)
    IN  IF ~ NumberIsSafeInteger(unitsStr)
        THEN [ok |-> FALSE, val |-> 0]
        ELSE [ok |-> TRUE,
              val |-> IF neg THEN 0 - NumberOf(unitsStr) ELSE NumberOf(unitsStr)]

\* a conversion that clamps to 0 instead of rejecting what is not a safe integer
toUnitsNumber_NoOverflowTest(value, precision) ==
    LET s == value
        neg == Len(s) > 0 /\ s[1] = "-"
        body == IF neg THEN Tail(s) ELSE s
        iRaw == SplitFirst(body)
        fRaw == SplitSecond(body)
        frac == SliceTo(fRaw \o Zeros(precision), precision)
        unitsStr == (IF Len(iRaw) = 0 THEN <<"0">> ELSE iRaw) \o frac
    IN  IF ~ NumberIsSafeInteger(unitsStr)
        THEN [ok |-> TRUE, val |-> 0]
        ELSE [ok |-> TRUE,
              val |-> IF neg THEN 0 - NumberOf(unitsStr) ELSE NumberOf(unitsStr)]

toUnitsNumber(value, precision) ==
    LET s == value
        neg == Len(s) > 0 /\ s[1] = "-"
        body == IF neg THEN Tail(s) ELSE s
        iRaw == SplitFirst(body)
        fRaw == SplitSecond(body)
        frac == SliceTo(fRaw \o Zeros(precision), precision)
        unitsStr == (IF Len(iRaw) = 0 THEN <<"0">> ELSE iRaw) \o frac
    IN  IF ~ NumberIsSafeInteger(unitsStr)
        THEN [ok |-> FALSE, val |-> 0]
        ELSE [ok |-> TRUE,
              val |-> IF neg THEN 0 - NumberOf(unitsStr) ELSE NumberOf(unitsStr)]

RECURSIVE Pow10(_)
Pow10(n) == IF n = 0 THEN 1 ELSE 10 * Pow10(n - 1)

RECURSIVE NatDigits(_)
NatDigits(n) ==
    IF n < 10 THEN <<DigitChar(n)>> ELSE NatDigits(n \div 10) \o <<DigitChar(n % 10)>>

RECURSIVE DropTrailingZeros(_)
DropTrailingZeros(s) ==
    IF Len(s) > 0 /\ s[Len(s)] = "0"
    THEN DropTrailingZeros(SubSeq(s, 1, Len(s) - 1)) ELSE s

\* the decimal text (Number.prototype.toString) of a quotient n / 10^precision
QuotientText(n, precision) ==
    LET ip == NatDigits(n \div Pow10(precision))
        fd == NatDigits(n % Pow10(precision))
        fp == DropTrailingZeros(Zeros(precision - Len(fd)) \o fd)
    IN  IF Len(fp) = 0 THEN ip ELSE ip \o <<".">> \o fp

\* a conversion back that forgets to restore the sign
fromUnitsNumber_DropsSign(units, precision) ==
    LET abs == IF units < 0 THEN 0 - units ELSE units
    IN  QuotientText(abs, precision)

\* a JS number is carried as its decimal text
fromUnitsNumber(units, precision) ==
    LET neg == units < 0
        abs == IF neg THEN 0 - units ELSE units
        value == QuotientText(abs, precision)
    IN  IF neg /\ abs # 0 THEN <<"-">> \o value ELSE value

\* truthiness of an optional JS number carried as decimal text
NumTruthy(v) == v # NULL /\ v # <<"0">>

\* ------------------------------------------------------------------------
\* NetworkAssetRegistry: the preset tables and their lookups
\* ------------------------------------------------------------------------
RGB_ASSET == "rgb:WPRv95Nj-icdrgPp-zpQhIp_-2TyJ~Ge-k~FvuMZ-~vVnkA0"
UTEXO_ASSET == "rgb:yJW4k8si-~8JdNfl-nM91qFu-r5rH_HS-1hM7jpi-L~lBf90"

NetworkNames == {"mainnet", "mainnetLightning", "utexo"}

\* (the field preset stands for the identity of the preset object)
testnetPreset ==
    [preset |-> "testnet",
     mainnet |->
        [networkName |-> "RGB", networkId |-> 36,
         assets |-> <<[assetId |-> RGB_ASSET, precision |-> 6, tokenId |-> 4]>>],
     mainnetLightning |->
        [networkName |-> "RGB Lightning", networkId |-> 94,
         assets |-> <<[assetId |-> RGB_ASSET, precision |-> 6, tokenId |-> 4]>>],
     utexo |->
        [networkName |-> "UTEXO", networkId |-> 96,
         assets |-> <<[assetId |-> UTEXO_ASSET, precision |-> 6, tokenId |-> 4]>>]]

mainnetPreset ==
    [preset |-> "mainnet",
     mainnet |->
        [networkName |-> "RGB", networkId |-> 36,
         assets |-> <<[assetId |-> RGB_ASSET, precision |-> 6, tokenId |-> 4]>>],
     mainnetLightning |->
        [networkName |-> "RGB Lightning", networkId |-> 94,
         assets |-> <<[assetId |-> RGB_ASSET, precision |-> 6, tokenId |-> 4]>>],
     utexo |->
        [networkName |-> "UTEXO", networkId |-> 96,
         assets |-> <<[assetId |-> UTEXO_ASSET, precision |-> 6, tokenId |-> 4]>>]]

getUtxoNetworkConfig(preset) ==
    IF preset = "mainnet" THEN mainnetPreset ELSE testnetPreset

\* the module-level table the free function getDestinationAsset reads
utexoNetworkIdMap == testnetPreset

\* Array.prototype.find: the index of the first element satisfying the
\* test, given the indices of all that do; 0 if none
FirstIndex(hits) ==
    IF hits = {} THEN 0 ELSE CHOOSE i \in hits : \A j \in hits : i <= j

\* the value standing for "no asset" (undefined)
NoAsset == [assetId |-> NULL, precision |-> 0, tokenId |-> 0]

getAssetById(config, tokenId) ==
    LET i == FirstIndex({k \in 1..Len(config.assets) : config.assets[k].tokenId = tokenId})
    IN  IF i = 0 THEN NoAsset ELSE config.assets[i]

\* a resolution whose test of the sender asset is inverted
getDestinationAsset_InvertedTest(senderNetwork, destinationNetwork, assetIdSender) ==
    LET destinationConfig == utexoNetworkIdMap[destinationNetwork]
        senderConfig == utexoNetworkIdMap[senderNetwork]
        i == FirstIndex({k \in 1..Len(senderConfig.assets) :
                            senderConfig.assets[k].assetId = assetIdSender})
    IN  IF assetIdSender = NULL
        THEN (IF Len(destinationConfig.assets) = 0 THEN NoAsset
              ELSE destinationConfig.assets[1])
        ELSE IF i # 0 THEN NoAsset
        ELSE destinationConfig.assets[1]

\* a resolution that falls back to the destination's first asset
getDestinationAsset_DefaultsToFirst(senderNetwork, destinationNetwork, assetIdSender) ==
    LET destinationConfig == utexoNetworkIdMap[destinationNetwork]
        senderConfig == utexoNetworkIdMap[senderNetwork]
        i == FirstIndex({k \in 1..Len(senderConfig.assets) :
                            senderConfig.assets[k].assetId = assetIdSender})
    IN  IF assetIdSender = NULL \/ i = 0
        THEN (IF Len(destinationConfig.assets) = 0 THEN NoAsset
              ELSE destinationConfig.assets[1])
        ELSE getAssetById(destinationConfig, senderConfig.assets[i].tokenId)

\* a resolution that hands back the sender network's own asset
getDestinationAsset_ReturnsSenderAsset(senderNetwork, destinationNetwork, assetIdSender) ==
    LET destinationConfig == utexoNetworkIdMap[destinationNetwork]
        senderConfig == utexoNetworkIdMap[senderNetwork]
        i == FirstIndex({k \in 1..Len(senderConfig.assets) :
                            senderConfig.assets[k].assetId = assetIdSender})
    IN  IF assetIdSender = NULL
        THEN (IF Len(destinationConfig.assets) = 0 THEN NoAsset
              ELSE destinationConfig.assets[1])
        ELSE IF i = 0 THEN NoAsset
        ELSE senderConfig.assets[i]

getDestinationAsset(senderNetwork, destinationNetwork, assetIdSender) ==
    LET destinationConfig == utexoNetworkIdMap[destinationNetwork]
        senderConfig == utexoNetworkIdMap[senderNetwork]
        i == FirstIndex({k \in 1..Len(senderConfig.assets) :
                            senderConfig.assets[k].assetId = assetIdSender})
    IN  IF assetIdSender = NULL
        THEN (IF Len(destinationConfig.assets) = 0 THEN NoAsset
              ELSE destinationConfig.assets[1])
        ELSE IF i = 0 THEN NoAsset
        ELSE getAssetById(destinationConfig, senderConfig.assets[i].tokenId)

\* ------------------------------------------------------------------------
\* Invoices and the bridge's hex-encoded invoice payloads.  An invoice is a
\* sequence of text tokens, so that String.includes can be evaluated.
\* ------------------------------------------------------------------------
Includes(str, marker) == \E i \in 1..Len(str) : str[i] = marker

HexTable ==
    [binv1 |-> "62696e7631", binv2 |-> "62696e7632", binv3 |-> "62696e7633",
     wvout |-> "77766f75743a", utxob |-> "7574786f623a"]

TokenKey(t) ==
    CASE t = "binv1" -> "binv1" [] t = "binv2" -> "binv2" [] t = "binv3" -> "binv3"
      [] t = "wvout:" -> "wvout" [] t = "utxob:" -> "utxob"

KeyToken(k) ==
    CASE k = "binv1" -> "binv1" [] k = "binv2" -> "binv2" [] k = "binv3" -> "binv3"
      [] k = "wvout" -> "wvout:" [] k = "utxob" -> "utxob:"

\* hex text of an invoice, as the bridge service writes it
HexEncode(invoice) == [i \in 1..Len(invoice) |-> HexTable[TokenKey(invoice[i])]]

\* Buffer.from(hex, 'hex').toString('utf-8')
HexDecode(hex) ==
    [i \in 1..Len(hex) |->
        KeyToken(CHOOSE k \in DOMAIN HexTable : HexTable[k] = hex[i])]

\* a decoder that drops the first two characters whatever they are
decodeBridgeInvoice_AlwaysSlices(hexInvoice) ==
    HexDecode(SliceFrom(hexInvoice, 2))

decodeBridgeInvoice(hexInvoice) ==
    LET hex == IF Len(hexInvoice) > 0 /\ hexInvoice[1] = "0x"
               THEN SliceFrom(hexInvoice, 2) ELSE hexInvoice
    IN  HexDecode(hex)

\* ------------------------------------------------------------------------
\* Values exchanged with the external systems
\* ------------------------------------------------------------------------
UNKNOWN_ASSET == "rgb:unknown"

\* invoices a caller may present
INV_A == <<"rgb:invoiceA", "utxob:">>   \* declares RGB_ASSET and an amount
INV_B == <<"rgb:invoiceB", "wvout:">>   \* declares neither asset nor amount
INV_W == <<"rgb:invoiceW", "utxob:">>   \* paid earlier by a withdrawal
BAD_INVOICE == <<"garbage">>            \* not an RGB invoice
LN_1 == <<"lnbc1">>                     \* Lightning payment requests
LN_2 == <<"lnbc2">>
\* invoices of the UTEXO network named by bridge transfers as recipient
UINV_1 == <<"rgb:utexo1", "wvout:">>
UINV_2 == <<"rgb:utexo2", "utxob:">>

NoInvoice == << >>

\* receive invoices issued by the wallet engine
WalletInvoice(n) ==
    <<CASE n = 1 -> "rgb:receive1" [] n = 2 -> "rgb:receive2"
        [] OTHER -> "rgb:receive3", "wvout:">>

RgbInvoices == {INV_A, INV_B, INV_W, BAD_INVOICE}
LnInvoices == {LN_1, LN_2}

\* the wallet engine's invoice decoder: recipientId, declared asset, amount
\* (an invoice text is its id, its recipient marker and, optionally, the text
\* of its transport endpoints, which is no part of the recipientId)
Decodable(invoice) == Len(invoice) \in {2, 3}
InvoiceData(invoice) ==
    [recipientId |-> <<invoice[2], invoice[1]>>,
     assetId |-> IF invoice = INV_A THEN RGB_ASSET
                 ELSE IF invoice = INV_W THEN UNKNOWN_ASSET ELSE NULL,
     amount |-> IF invoice = INV_A THEN 1500000 ELSE 0]

NoTransfer ==
    [id |-> 0, mainnetInvoice |-> NoInvoice, networkId |-> 0, senderNetworkId |-> 0,
     recipientAddress |-> NoInvoice, recipientAmount |-> << >>,
     recipientTokenId |-> 0, status |-> << >>]

\* withdrawals to other invoices that the bridge's history lists as well
PAID_INVOICE == <<"rgb:paid", "utxob:">>
EarlierWithdrawals ==
    { [id |-> n, mainnetInvoice |-> NoInvoice, networkId |-> 0, senderNetworkId |-> 96,
       recipientAddress |-> PAID_INVOICE, recipientAmount |-> <<"1">>,
       recipientTokenId |-> 4, status |-> <<2>>] : n \in 6..14 }

\* transfers the bridge service holds before this wallet acts
InitialBridge ==
    { [id |-> 1, mainnetInvoice |-> INV_A, networkId |-> 36, senderNetworkId |-> 36,
       recipientAddress |-> UINV_1,
       recipientAmount |-> <<"1", ".", "5", "0", "0", "0", "0", "0">>,
       recipientTokenId |-> 4, status |-> <<1>>],
      [id |-> 2, mainnetInvoice |-> INV_B, networkId |-> 36, senderNetworkId |-> 36,
       recipientAddress |-> UINV_2, recipientAmount |-> <<"2">>,
       recipientTokenId |-> 9, status |-> <<1>>],
      [id |-> 3, mainnetInvoice |-> LN_1, networkId |-> 94, senderNetworkId |-> 94,
       recipientAddress |-> UINV_2, recipientAmount |-> <<"0", ".", "5">>,
       recipientTokenId |-> 4, status |-> <<1>>],
      [id |-> 4, mainnetInvoice |-> NoInvoice, networkId |-> 0, senderNetworkId |-> 96,
       recipientAddress |-> INV_W, recipientAmount |-> <<"1">>,
       recipientTokenId |-> 4, status |-> <<2>>],
      [id |-> 5, mainnetInvoice |-> NoInvoice, networkId |-> 0, senderNetworkId |-> 96,
       recipientAddress |-> LN_2, recipientAmount |-> <<"1">>,
       recipientTokenId |-> 4, status |-> <<9>>] }
    \cup EarlierWithdrawals

\* unsigned and signed transactions
NoPsbt ==
    [kind |-> "none", invoice |-> NoInvoice, amount |-> 0, assetId |-> NULL,
     witness |-> FALSE, signed |-> FALSE]
GarbagePsbt == [NoPsbt EXCEPT !.kind = "garbage"]
SignedOf(psbt) == [psbt EXCEPT !.signed = TRUE]

\* a transaction the caller was handed by an earlier Begin (and Sign)
EarlierPsbt ==
    [kind |-> "send", invoice |-> UINV_2, amount |-> 1000000, assetId |-> UTEXO_ASSET,
     witness |-> FALSE, signed |-> FALSE]

NoErr == [type |-> "none", field |-> "none"]
Err(type, field) == [type |-> type, field |-> field]

NoValue == [kind |-> "none", status |-> NULL, invoice |-> NoInvoice, psbt |-> NoPsbt]
NullValue == [NoValue EXCEPT !.kind = "null"]
StatusValue(st) == [NoValue EXCEPT !.kind = "status", !.status = st]
InvoiceValue(inv) == [NoValue EXCEPT !.kind = "invoice", !.invoice = inv]
PsbtValue(p) == [NoValue EXCEPT !.kind = "psbt", !.psbt = p]
SendResultValue(p) == [NoValue EXCEPT !.kind = "sendResult", !.psbt = p]
\* a Transfer[] result; the list itself is loc.transfers
TransfersValue == [NoValue EXCEPT !.kind = "transfers"]

NoArg ==
    [invoice |-> NoInvoice, assetId |-> NULL, amount |-> NULL, hasAsset |-> FALSE,
     psbt |-> NoPsbt, mnemonic |-> FALSE]

NoLoc ==
    [bt |-> NoTransfer, sendInvoice |-> NoInvoice, assetId |-> NULL, tokenId |-> 0,
     amount |-> 0, amountText |-> << >>, checked |-> -1, spendable |-> -1,
     isWitness |-> FALSE, transfers |-> << >>, invoiceAssetId |-> NULL,
     tables |-> {}, paths |-> << >>,
     signer |-> [seed |-> [kind |-> "none", wellFormed |-> FALSE, root |-> "none"],
                 rootNode |-> "none", fp |-> [of |-> "none"], psbtType |-> "none",
                 wallet |-> "none", reconcile |-> "none",
                 processed |-> [parseable |-> FALSE, inputs |-> << >>],
                 engine |-> [parseable |-> FALSE, inputs |-> << >>]],
     psbt |-> NoPsbt]

\* ------------------------------------------------------------------------
\* State
\* ------------------------------------------------------------------------
VARIABLES
    preset,          \* UTEXOWallet.options.network ?? 'mainnet'
    initialized,     \* UTEXOWallet.utexoRGBWallet !== null
    disposed,        \* WalletManager.disposed of utexoRGBWallet
    hasMnemonic,     \* WalletManager.mnemonic !== null
    client,          \* RGBLibClient of utexoRGBWallet: its engine handle
    walletInvoices,  \* wallet engine: receive invoices it has issued
    broadcast,       \* wallet engine: signed transactions it has accepted
    bridge,          \* bridge service: its transfer records
    opName,          \* the operation in flight, "idle" when none
    phase,           \* Begin, Sign or End while a phase is executing
    pc,              \* the await the operation in flight has reached
    arg,             \* the parameters of the operation in flight
    loc,             \* its local variables
    calls,           \* external calls issued by the current/last invocation
    result,          \* outcome of the last finished invocation
    heldPsbt,        \* caller: the unsigned transaction last returned to it
    heldSigned,      \* caller: the signed transaction last returned to it
    failedEnd,       \* caller: signed transaction whose standalone End failed
    parked,          \* an operation in flight that is waiting while another runs
    nOps             \* invocations so far

vars == <<preset, initialized, disposed, hasMnemonic, client, walletInvoices,
          broadcast, bridge, opName, phase, pc, arg, loc, calls, result,
          heldPsbt, heldSigned, failedEnd, parked, nOps>>

walletFields == <<preset, initialized, disposed, hasMnemonic, client>>
engineState == <<walletInvoices, broadcast>>
callerState == <<heldPsbt, heldSigned, failedEnd, parked>>

NoResult == [op |-> "none", status |-> "none", value |-> NoValue, err |-> NoErr]

\* RGBLibClient: wallet is "the engine handle is held", drops the number of
\* times the engine was asked to drop it, disposeReturn where the last
\* WalletManager.dispose returned ("early": at the disposed test)
NoClient == [wallet |-> FALSE, drops |-> 0, disposeReturn |-> "none"]

\* the client a new WalletManager constructs
NewClient == [wallet |-> TRUE, drops |-> 0, disposeReturn |-> "none"]

\* an operation's part of the state: its position, parameters, locals, log
Context(o, ph, p, a, l, c, r) ==
    [opName |-> o, phase |-> ph, pc |-> p, arg |-> a, loc |-> l, calls |-> c,
     result |-> r]

NoContext == Context("idle", "none", "idle", NoArg, NoLoc, << >>, NoResult)

Init ==
    /\ preset \in {"mainnet", "testnet"}
    /\ initialized = FALSE
    /\ disposed = FALSE
    /\ hasMnemonic = FALSE
    /\ client = NoClient
    /\ walletInvoices = {}
    /\ broadcast = {}
    /\ bridge = InitialBridge
    /\ opName = "idle"
    /\ phase = "none"
    /\ pc = "idle"
    /\ arg = NoArg
    /\ loc = NoLoc
    /\ calls = << >>
    /\ result = NoResult
    /\ \E p \in {NoPsbt, EarlierPsbt} :
          /\ heldPsbt = p
          /\ heldSigned = IF p = NoPsbt THEN NoPsbt ELSE SignedOf(p)
    /\ failedEnd = NoPsbt
    /\ parked = NoContext
    /\ nOps = 0

networkIdMap == getUtxoNetworkConfig(preset)

\* ------------------------------------------------------------------------
\* Finishing an invocation
\* ------------------------------------------------------------------------
DoAllOps == {"onchainSend", "payLightningInvoice", "send", "createUtxos"}
BeginOps == {"onchainSendBegin", "payLightningInvoiceBegin"}
EndOps == {"onchainSendEnd", "payLightningInvoiceEnd"}
ReceiveOps == {"onchainReceive", "createLightningInvoice"}
StatusOps == {"getOnchainSendStatus", "getLightningSendRequest",
              "getLightningReceiveRequest"}
OnchainFamily == {"onchainSendBegin", "onchainSend"}
LightningFamily == {"payLightningInvoiceBegin", "payLightningInvoice"}

\* one external call: the system asked, the function, the phase it was
\* issued in, and whether it answered with a result
Call(sys, fn, ok) == [sys |-> sys, fn |-> fn, phase |-> phase, ok |-> ok]

Finish(name, status, value, err) ==
    /\ result' = [op |-> name, status |-> status, value |-> value, err |-> err]
    /\ opName' = name
    /\ phase' = "none"
    /\ pc' = "done"

Throw(err) == Finish(opName, "thrown", NoValue, err)
Return(value) == Finish(opName, "returned", value, NoErr)

\* an invocation that ends before its first await
ThrowAtCall(name, err) == Finish(name, "thrown", NoValue, err) /\ loc' = NoLoc

Proceed(name, ph, label) ==
    /\ opName' = name
    /\ phase' = ph
    /\ pc' = label
    /\ UNCHANGED result

Goto(label) == pc' = label /\ UNCHANGED <<opName, phase, result>>

NotInitialized == Err("WalletError", "Wallet not initialized. Call initialize() first.")
WalletDisposed == Err("WalletError", "Wallet has been disposed")

\* the guard every IWalletManager/IUTEXOProtocol method but
\* getOnchainSendStatus starts with
ensureInitialized == initialized

Invoke(name, a) ==
    /\ pc = "idle"
    /\ nOps < MaxOps
    /\ nOps' = nOps + 1
    /\ arg' = a
    /\ calls' = << >>

\* ------------------------------------------------------------------------
\* Wallet lifecycle
\* ------------------------------------------------------------------------
\* UTEXOWallet.initialize: derives the keys (which fails on an invalid
\* mnemonic) and constructs the two WalletManager instances
initialize ==
    /\ pc = "idle"
    /\ \E keysOk \in BOOLEAN :
          IF keysOk
          THEN /\ initialized' = TRUE
               /\ disposed' = FALSE
               /\ hasMnemonic' = TRUE
               /\ client' = NewClient
          ELSE UNCHANGED <<initialized, disposed, hasMnemonic, client>>
    /\ UNCHANGED <<preset, engineState, bridge, opName, phase, pc, arg, loc,
                   calls, result, callerState, nOps>>

\* RGBLibClient.dropWallet: a handle still held is dropped and forgotten
dropWallet(c) ==
    IF c.wallet
    THEN [c EXCEPT !.wallet = FALSE, !.drops = c.drops + 1]
    ELSE c

\* a dispose that drops the handle on every call
dispose_DropsEveryTime ==
    /\ pc = "idle"
    /\ IF initialized
       THEN /\ disposed' = TRUE
            /\ hasMnemonic' = FALSE
            /\ client' = [client EXCEPT !.wallet = FALSE, !.drops = client.drops + 1,
                                        !.disposeReturn = "end"]
       ELSE UNCHANGED <<disposed, hasMnemonic, client>>
    /\ UNCHANGED <<preset, initialized, engineState, bridge, opName, phase, pc,
                   arg, loc, calls, result, callerState, nOps>>

\* UTEXOWallet.dispose -> WalletManager.dispose: nothing before initialize;
\* an early return once disposed; else the mnemonic is cleared, the handle
\* dropped and the wallet marked disposed
dispose ==
    /\ pc = "idle"
    /\ IF ~ initialized
       THEN UNCHANGED <<disposed, hasMnemonic, client>>
       ELSE IF disposed
       THEN /\ client' = [client EXCEPT !.disposeReturn = "early"]
            /\ UNCHANGED <<disposed, hasMnemonic>>
       ELSE /\ hasMnemonic' = FALSE
            /\ client' = [dropWallet(client) EXCEPT !.disposeReturn = "end"]
            /\ disposed' = TRUE
    /\ UNCHANGED <<preset, initialized, engineState, bridge, opName, phase, pc,
                   arg, loc, calls, result, callerState, nOps>>

\* ------------------------------------------------------------------------
\* The bridge API client
\* ------------------------------------------------------------------------
HttpOutcomes == {"ok", "error"}

BridgeFind(br, mainnetInvoice, networkId) ==
    IF \E t \in br : t.mainnetInvoice = mainnetInvoice /\ t.networkId = networkId
    THEN CHOOSE t \in br : t.mainnetInvoice = mainnetInvoice /\ t.networkId = networkId
    ELSE NoTransfer

\* the lookup without its try/catch: a failed request (404 included) propagates
getTransferByMainnetInvoice_Uncaught(http, br, mainnetInvoice, networkId) ==
    IF http = "ok" /\ BridgeFind(br, mainnetInvoice, networkId) # NoTransfer
    THEN [thrown |-> FALSE, data |-> BridgeFind(br, mainnetInvoice, networkId)]
    ELSE [thrown |-> TRUE, data |-> NoTransfer]

\* getTransferByMainnetInvoice: a failed request (404 included) is caught
getTransferByMainnetInvoice(http, br, mainnetInvoice, networkId) ==
    IF http = "ok" /\ BridgeFind(br, mainnetInvoice, networkId) # NoTransfer
    THEN [thrown |-> FALSE, data |-> BridgeFind(br, mainnetInvoice, networkId)]
    ELSE [thrown |-> FALSE, data |-> NoTransfer]

\* the first byte of the status text, -1 (undefined) when the text is empty
encodeTransferStatus(transferStatus) ==
    IF transferStatus = << >> THEN -1 ELSE transferStatus[1]

\* the status name a history entry's raw status byte stands for
TransferStatuses(code) ==
    CASE code = 0 -> "WaitingCounterparty" [] code = 1 -> "WaitingConfirmations"
      [] code = 2 -> "Settled" [] code = 3 -> "Failed" [] OTHER -> "undefined"

\* 'limit': String(10)
HistoryLimit == 10

HistoryOrders == {"oldestFirst", "newestFirst"}

\* transfers/history?network_id=..&address=rgb-address
History(br, networkId) == {t \in br : t.senderNetworkId = networkId}

\* the listing's first page, offset 0 and limit HistoryLimit, in the order
\* the bridge lists its transfers
HistoryPage(history, order) ==
    { t \in history :
         Cardinality({u \in history : IF order = "oldestFirst" THEN u.id < t.id
                                                               ELSE u.id > t.id})
            < HistoryLimit }

\* getWithdrawTransfer: the request is not guarded, so its failure propagates
getWithdrawTransfer(http, br, invoice, networkId, order) ==
    LET transfers == HistoryPage(History(br, networkId), order)
        matching == {t \in transfers : t.recipientAddress = invoice}
    IN  IF http # "ok" THEN [thrown |-> TRUE, data |-> NoTransfer]
        ELSE IF transfers = {} THEN [thrown |-> FALSE, data |-> NoTransfer]
        ELSE IF matching = {} THEN [thrown |-> FALSE, data |-> NoTransfer]
        ELSE [thrown |-> FALSE, data |-> CHOOSE t \in matching : TRUE]

NewPosts == Cardinality(bridge) - Cardinality(InitialBridge)

BridgeInvoice(n, marker) ==
    <<CASE n = 1 -> "binv1" [] n = 2 -> "binv2" [] OTHER -> "binv3", marker>>

\* the transport endpoints a bridge-issued invoice may name: none, or one
\* whose URL has the text "wvout:" in it
InvoiceEndpoints == { << >>, <<"wvout:">> }

\* the record the bridge creates for a bridge-in-signature request
PostedTransfer(senderNetworkId, destination, tokenId, amountText, issued) ==
    [id |-> Cardinality(bridge) + 1,
     mainnetInvoice |-> IF senderNetworkId = 96 THEN NoInvoice ELSE issued,
     networkId |-> IF senderNetworkId = 96 THEN 0 ELSE senderNetworkId,
     senderNetworkId |-> senderNetworkId,
     recipientAddress |-> destination, recipientAmount |-> amountText,
     recipientTokenId |-> tokenId, status |-> <<0>>]

\* ------------------------------------------------------------------------
\* onchainReceive / createLightningInvoice
\* ------------------------------------------------------------------------
onchainReceive ==
    \E assetId \in {NULL, RGB_ASSET, UNKNOWN_ASSET}, amount \in {NULL, <<"2">>} :
       LET destinationAsset == getDestinationAsset("mainnet", "utexo", assetId)
       IN  /\ Invoke("onchainReceive", [NoArg EXCEPT !.assetId = assetId, !.amount = amount])
           /\ IF ~ ensureInitialized
              THEN ThrowAtCall("onchainReceive", NotInitialized)
              ELSE IF destinationAsset = NoAsset
              THEN ThrowAtCall("onchainReceive", Err("ValidationError", "assetId"))
              ELSE IF ~ NumTruthy(amount)
              THEN ThrowAtCall("onchainReceive", Err("ValidationError", "amount"))
              ELSE /\ Proceed("onchainReceive", "none", "witnessReceive")
                   /\ loc' = [NoLoc EXCEPT !.tokenId = destinationAsset.tokenId,
                                           !.amountText = amount,
                                           !.tables = {utexoNetworkIdMap.preset}]
           /\ UNCHANGED <<walletFields, engineState, bridge, callerState>>

createLightningInvoice ==
    \E hasAsset \in BOOLEAN, assetId \in {NULL, RGB_ASSET, UNKNOWN_ASSET},
       amount \in {NULL, <<"2">>} :
       LET destinationAsset == getDestinationAsset("mainnet", "utexo", assetId)
           name == "createLightningInvoice"
       IN  /\ hasAsset \/ (assetId = NULL /\ amount = NULL)
           /\ Invoke(name, [NoArg EXCEPT !.hasAsset = hasAsset,
                                         !.assetId = assetId, !.amount = amount])
           /\ IF ~ ensureInitialized
              THEN ThrowAtCall(name, NotInitialized)
              ELSE IF ~ hasAsset
              THEN ThrowAtCall(name, Err("ValidationError", "asset"))
              ELSE IF assetId = NULL
              THEN ThrowAtCall(name, Err("ValidationError", "assetId"))
              ELSE IF ~ NumTruthy(amount)
              THEN ThrowAtCall(name, Err("ValidationError", "amount"))
              ELSE IF destinationAsset = NoAsset
              THEN ThrowAtCall(name, Err("ValidationError", "assetId"))
              ELSE /\ Proceed(name, "none", "witnessReceive")
                   /\ loc' = [NoLoc EXCEPT !.tokenId = destinationAsset.tokenId,
                                           !.amountText = amount,
                                           !.tables = {utexoNetworkIdMap.preset}]
           /\ UNCHANGED <<walletFields, engineState, bridge, callerState>>

\* utexoRGBWallet.witnessReceive({assetId: '', amount, ...})
ReceiveWitnessReceive ==
    /\ opName \in ReceiveOps
    /\ pc = "witnessReceive"
    /\ \E ok \in BOOLEAN :
          /\ ok => ~ disposed /\ Cardinality(walletInvoices) < MaxReceives
          /\ calls' = Append(calls, Call("engine", "witnessReceive", ok))
          /\ IF ok
             THEN LET invoice == WalletInvoice(Cardinality(walletInvoices) + 1)
                  IN  /\ walletInvoices' = walletInvoices \cup {invoice}
                      /\ loc' = [loc EXCEPT !.sendInvoice = invoice,
                                            !.invoiceAssetId = ""]
                      /\ Goto("bridgeIn")
             ELSE /\ Throw(Err("EngineError", "witnessReceive"))
                  /\ UNCHANGED <<walletInvoices, loc>>
    /\ UNCHANGED <<walletFields, broadcast, bridge, arg, callerState, nOps>>

\* a bridge-in request that names the placeholder sender address as destination
ReceiveBridgeIn_WrongDestination ==
    /\ opName \in ReceiveOps
    /\ pc = "bridgeIn"
    /\ \E ok \in BOOLEAN, prefixed \in BOOLEAN, marker \in {"wvout:", "utxob:"} :
          LET sender == IF opName = "onchainReceive" THEN networkIdMap.mainnet
                        ELSE networkIdMap.mainnetLightning
              issued == BridgeInvoice(NewPosts + 1, marker)
              signature == (IF prefixed THEN <<"0x">> ELSE << >>) \o HexEncode(issued)
          IN  /\ ok => NewPosts < MaxPosts
              /\ ~ ok => (~ prefixed /\ marker = "wvout:")
              /\ calls' = Append(calls, Call("bridge", "getBridgeInSignature", ok))
              /\ IF ok
                 THEN /\ bridge' = bridge \cup
                           {PostedTransfer(sender.networkId, <<"rgb-address">>,
                                           loc.tokenId, loc.amountText, issued)}
                      /\ Return(InvoiceValue(decodeBridgeInvoice(signature)))
                 ELSE /\ Throw(Err("Error", "bridge-in-signature"))
                      /\ UNCHANGED bridge
              /\ loc' = [loc EXCEPT !.tables = @ \cup {networkIdMap.preset}]
    /\ UNCHANGED <<walletFields, engineState, arg, callerState, nOps>>

\* bridgeAPI.getBridgeInSignature naming the wallet invoice as destination,
\* then decodeBridgeInvoice(bridgeTransfer.signature)
ReceiveBridgeIn ==
    /\ opName \in ReceiveOps
    /\ pc = "bridgeIn"
    /\ \E ok \in BOOLEAN, prefixed \in BOOLEAN, marker \in {"wvout:", "utxob:"} :
          LET sender == IF opName = "onchainReceive" THEN networkIdMap.mainnet
                        ELSE networkIdMap.mainnetLightning
              issued == BridgeInvoice(NewPosts + 1, marker)
              signature == (IF prefixed THEN <<"0x">> ELSE << >>) \o HexEncode(issued)
          IN  /\ ok => NewPosts < MaxPosts
              /\ ~ ok => (~ prefixed /\ marker = "wvout:")
              /\ calls' = Append(calls, Call("bridge", "getBridgeInSignature", ok))
              /\ IF ok
                 THEN /\ bridge' = bridge \cup
                           {PostedTransfer(sender.networkId, loc.sendInvoice,
                                           loc.tokenId, loc.amountText, issued)}
                      /\ Return(InvoiceValue(decodeBridgeInvoice(signature)))
                 ELSE /\ Throw(Err("Error", "bridge-in-signature"))
                      /\ UNCHANGED bridge
              /\ loc' = [loc EXCEPT !.tables = @ \cup {networkIdMap.preset}]
    /\ UNCHANGED <<walletFields, engineState, arg, callerState, nOps>>

\* ------------------------------------------------------------------------
\* Begin: onchainSendBegin / payLightningInvoiceBegin, alone or as the first
\* step of onchainSend / payLightningInvoice
\* ------------------------------------------------------------------------
AssetOverrides == {NULL, RGB_ASSET, UNKNOWN_ASSET}
AmountOverrides == {NULL, <<"1", ".", "5">>}

StartSend(name, invoice, assetId, amount) ==
    /\ Invoke(name, [NoArg EXCEPT !.invoice = invoice, !.assetId = assetId,
                                  !.amount = amount])
    /\ loc' = NoLoc
    /\ IF ~ ensureInitialized
       THEN Finish(name, "thrown", NoValue, NotInitialized)
       ELSE Proceed(name, "Begin", "lookup")
    /\ UNCHANGED <<walletFields, engineState, bridge, callerState>>

onchainSendBegin ==
    \E invoice \in RgbInvoices, assetId \in AssetOverrides, amount \in AmountOverrides :
       StartSend("onchainSendBegin", invoice, assetId, amount)

onchainSend ==
    \E invoice \in RgbInvoices, assetId \in AssetOverrides, amount \in AmountOverrides :
       StartSend("onchainSend", invoice, assetId, amount)

payLightningInvoiceBegin ==
    \E invoice \in LnInvoices, assetId \in AssetOverrides, amount \in AmountOverrides :
       StartSend("payLightningInvoiceBegin", invoice, assetId, amount)

payLightningInvoice ==
    \E invoice \in LnInvoices, assetId \in AssetOverrides, amount \in AmountOverrides :
       StartSend("payLightningInvoice", invoice, assetId, amount)

\* the synchronous head of UtexoToMainnetLightning, up to validateBalance
UtexoToMainnetLightningHead ==
    LET utexoAsset == getDestinationAsset("mainnet", "utexo", arg.assetId)
        destinationAsset ==
            getAssetById(networkIdMap.mainnet,
                         IF utexoAsset = NoAsset THEN 0 ELSE utexoAsset.tokenId)
        units == toUnitsNumber(arg.amount, utexoAsset.precision)
    IN  IF arg.assetId = NULL THEN Throw(Err("ValidationError", "assetId")) /\ UNCHANGED loc
        ELSE IF destinationAsset = NoAsset
        THEN Throw(Err("ValidationError", "assetId")) /\ UNCHANGED loc
        ELSE IF utexoAsset = NoAsset
        THEN Throw(Err("ValidationError", "assetId")) /\ UNCHANGED loc
        ELSE IF ~ NumTruthy(arg.amount)
        THEN Throw(Err("ValidationError", "amount")) /\ UNCHANGED loc
        ELSE IF ~ units.ok
        THEN Throw(Err("Error", "MAX_SAFE_INTEGER")) /\ UNCHANGED loc
        ELSE /\ loc' = [loc EXCEPT !.tables = @ \cup {utexoNetworkIdMap.preset,
                                                           networkIdMap.preset},
                                   !.assetId = utexoAsset.assetId,
                                   !.tokenId = destinationAsset.tokenId,
                                   !.amountText = arg.amount,
                                   !.amount = units.val]
             /\ Goto("d_balance")

\* bridgeAPI.getTransferByMainnetInvoice(invoice, networkId) and the branch
\* taken on its result
BeginLookup ==
    /\ phase = "Begin"
    /\ pc = "lookup"
    /\ \E http \in HttpOutcomes :
          LET networkId == IF opName \in OnchainFamily
                           THEN networkIdMap.mainnet.networkId
                           ELSE networkIdMap.mainnetLightning.networkId
              r == getTransferByMainnetInvoice(http, bridge, arg.invoice, networkId)
          IN  /\ calls' = Append(calls, Call("bridge", "getTransferByMainnetInvoice",
                                             r.data # NoTransfer))
              /\ IF r.thrown
                 THEN Throw(Err("AxiosError", "transfer-by-mainnet-invoice"))
                      /\ UNCHANGED loc
                 ELSE IF r.data # NoTransfer
                 THEN loc' = [loc EXCEPT !.bt = r.data] /\ Goto("decode")
                 ELSE IF opName \in OnchainFamily
                 THEN UNCHANGED loc /\ Goto("d_decode")
                 ELSE UtexoToMainnetLightningHead
    /\ UNCHANGED <<walletFields, engineState, bridge, arg, callerState, nOps>>

\* bridged branch: decodeRGBInvoice(bridgeTransfer.recipient.address), then
\* the destination asset, the base-unit amount and the witness marker
BeginDecode ==
    /\ phase = "Begin"
    /\ pc = "decode"
    /\ \E ok \in BOOLEAN :
          LET utexoInvoice == loc.bt.recipientAddress
              invoiceData == InvoiceData(utexoInvoice)
              destinationAsset == getAssetById(networkIdMap.utexo, loc.bt.recipientTokenId)
              amount == toUnitsNumber(loc.bt.recipientAmount, destinationAsset.precision)
          IN  /\ ok => ~ disposed /\ Decodable(utexoInvoice)
              /\ calls' = Append(calls, Call("engine", "decodeRGBInvoice", ok))
              /\ IF ~ ok
                 THEN Throw(Err("EngineError", "decodeRGBInvoice")) /\ UNCHANGED loc
                 ELSE IF destinationAsset = NoAsset
                 THEN Throw(Err("ValidationError", "assetId")) /\ UNCHANGED loc
                 ELSE IF ~ amount.ok
                 THEN Throw(Err("Error", "MAX_SAFE_INTEGER")) /\ UNCHANGED loc
                 ELSE /\ loc' = [loc EXCEPT
                                   !.tables = @ \cup {networkIdMap.preset},
                                   !.sendInvoice = utexoInvoice,
                                   !.assetId = destinationAsset.assetId,
                                   !.amount = amount.val,
                                   !.isWitness = Includes(invoiceData.recipientId, "wvout:")]
                      /\ Goto(IF opName \in OnchainFamily THEN "balance" ELSE "sendBegin")
    /\ UNCHANGED <<walletFields, engineState, bridge, arg, callerState, nOps>>

\* direct branch of onchainSendBegin: UTEXOToMainnetRGB up to validateBalance
DirectDecode ==
    /\ phase = "Begin"
    /\ pc = "d_decode"
    /\ \E ok \in BOOLEAN :
          LET invoiceData == InvoiceData(arg.invoice)
              assetId == IF arg.assetId # NULL THEN arg.assetId ELSE invoiceData.assetId
              utexoAsset == getDestinationAsset("mainnet", "utexo", assetId)
              destinationAsset == getAssetById(networkIdMap.mainnet, utexoAsset.tokenId)
              amount == IF NumTruthy(arg.amount) THEN arg.amount
                        ELSE fromUnitsNumber(invoiceData.amount, destinationAsset.precision)
              units == toUnitsNumber(amount, utexoAsset.precision)
          IN  /\ ok => ~ disposed /\ Decodable(arg.invoice)
              /\ calls' = Append(calls, Call("engine", "decodeRGBInvoice", ok))
              /\ IF ~ ok
                 THEN Throw(Err("EngineError", "decodeRGBInvoice")) /\ UNCHANGED loc
                 ELSE IF arg.assetId = NULL /\ invoiceData.assetId = NULL
                 THEN Throw(Err("ValidationError", "assetId")) /\ UNCHANGED loc
                 ELSE IF utexoAsset = NoAsset
                 THEN Throw(Err("ValidationError", "assetId")) /\ UNCHANGED loc
                 ELSE IF destinationAsset = NoAsset
                 THEN Throw(Err("ValidationError", "assetId")) /\ UNCHANGED loc
                 ELSE IF ~ NumTruthy(arg.amount) /\ invoiceData.amount = 0
                 THEN Throw(Err("ValidationError", "amount")) /\ UNCHANGED loc
                 ELSE IF ~ units.ok
                 THEN Throw(Err("Error", "MAX_SAFE_INTEGER")) /\ UNCHANGED loc
                 ELSE /\ loc' = [loc EXCEPT !.tables = @ \cup {utexoNetworkIdMap.preset,
                                                                    networkIdMap.preset},
                                            !.assetId = utexoAsset.assetId,
                                            !.tokenId = destinationAsset.tokenId,
                                            !.amountText = amount,
                                            !.amount = units.val]
                      /\ Goto("d_balance")
    /\ UNCHANGED <<walletFields, engineState, bridge, arg, callerState, nOps>>

\* spendable balances of the asset the wallet engine may report
Spendables == {0, 1000000, 2000000}

\* validateBalance without its comparison of the balance with the amount
validateBalance_NoComparison(assetBalanceSpendable, amount) ==
    IF assetBalanceSpendable = 0 THEN Err("ValidationError", "assetBalance")
    ELSE NoErr

\* validateBalance's two tests on the balance the wallet engine reports
validateBalance(assetBalanceSpendable, amount) ==
    IF assetBalanceSpendable = 0 THEN Err("ValidationError", "assetBalance")
    ELSE IF assetBalanceSpendable < amount THEN Err("ValidationError", "amount")
    ELSE NoErr

\* validateBalance(assetId, amount): getAssetBalance, then the tests
BeginValidateBalance ==
    /\ phase = "Begin"
    /\ pc \in {"balance", "d_balance"}
    /\ \E ok \in BOOLEAN, spendable \in Spendables :
          /\ ok => ~ disposed
          /\ ~ ok => spendable = 0
          /\ calls' = Append(calls, Call("engine", "getAssetBalance", ok))
          /\ IF ~ ok
             THEN Throw(Err("EngineError", "getAssetBalance")) /\ UNCHANGED loc
             ELSE IF validateBalance(spendable, loc.amount) # NoErr
             THEN /\ Throw(validateBalance(spendable, loc.amount))
                  /\ loc' = [loc EXCEPT !.spendable = spendable]
             ELSE /\ loc' = [loc EXCEPT !.checked = loc.amount, !.spendable = spendable]
                  /\ Goto(IF pc = "balance" THEN "sendBegin" ELSE "d_bridge")
    /\ UNCHANGED <<walletFields, engineState, bridge, arg, callerState, nOps>>

\* a direct branch that tests the balance only once the bridge has the request
DirectBridgeOut_BalanceAfterRequest ==
    /\ phase = "Begin"
    /\ pc = "d_bridge"
    /\ \E ok \in BOOLEAN, prefixed \in BOOLEAN, marker \in {"wvout:", "utxob:"},
          bridgeAmount \in {1000000, 1500000}, spendable \in Spendables,
          endpoints \in InvoiceEndpoints :
          LET issued == BridgeInvoice(NewPosts + 1, marker) \o endpoints
              signature == (IF prefixed THEN <<"0x">> ELSE << >>) \o HexEncode(issued)
              decodedInvoice == decodeBridgeInvoice(signature)
          IN  /\ ok => NewPosts < MaxPosts
              /\ endpoints # << >> => (ok /\ ~ prefixed /\ marker = "utxob:"
                                       /\ bridgeAmount = 1000000)
              /\ ~ ok => (~ prefixed /\ marker = "wvout:" /\ bridgeAmount = 1000000
                          /\ spendable = 0)
              /\ calls' = Append(calls, Call("bridge", "getBridgeInSignature", ok))
              /\ IF ok
                 THEN /\ bridge' = bridge \cup
                           {PostedTransfer(networkIdMap.utexo.networkId, arg.invoice,
                                           loc.tokenId, loc.amountText, issued)}
                      /\ IF validateBalance(spendable, bridgeAmount) # NoErr
                         THEN /\ Throw(validateBalance(spendable, bridgeAmount))
                              /\ UNCHANGED loc
                         ELSE /\ loc' = [loc EXCEPT !.sendInvoice = decodedInvoice,
                                            !.isWitness = Includes(decodedInvoice, "wvout:"),
                                            !.amount = bridgeAmount]
                              /\ Goto("d_sendBegin")
                 ELSE /\ Throw(Err("Error", "bridge-in-signature"))
                      /\ UNCHANGED <<bridge, loc>>
    /\ UNCHANGED <<walletFields, engineState, arg, callerState, nOps>>

\* a direct branch that sends to the presented invoice, asking the bridge nothing
DirectBridgeOut_Bypassed ==
    /\ phase = "Begin"
    /\ pc = "d_bridge"
    /\ loc' = [loc EXCEPT !.sendInvoice = arg.invoice,
                          !.isWitness = Includes(arg.invoice, "wvout:")]
    /\ Goto("d_sendBegin")
    /\ UNCHANGED <<walletFields, engineState, bridge, arg, calls, callerState, nOps>>

\* direct branch: the bridge-in-signature request of UTEXOToMainnetRGB and
\* UtexoToMainnetLightning, and the decoding of the invoice it returns
DirectBridgeOut ==
    /\ phase = "Begin"
    /\ pc = "d_bridge"
    /\ \E ok \in BOOLEAN, prefixed \in BOOLEAN, marker \in {"wvout:", "utxob:"},
          bridgeAmount \in {1000000, 1500000}, endpoints \in InvoiceEndpoints :
          LET issued == BridgeInvoice(NewPosts + 1, marker) \o endpoints
              signature == (IF prefixed THEN <<"0x">> ELSE << >>) \o HexEncode(issued)
              decodedInvoice == decodeBridgeInvoice(signature)
          IN  /\ ok => NewPosts < MaxPosts
              /\ endpoints # << >> => (ok /\ ~ prefixed /\ marker = "utxob:"
                                       /\ bridgeAmount = 1000000)
              /\ ~ ok => (~ prefixed /\ marker = "wvout:" /\ bridgeAmount = 1000000)
              /\ calls' = Append(calls, Call("bridge", "getBridgeInSignature", ok))
              /\ IF ok
                 THEN /\ bridge' = bridge \cup
                           {PostedTransfer(networkIdMap.utexo.networkId, arg.invoice,
                                           loc.tokenId, loc.amountText, issued)}
                      /\ loc' = [loc EXCEPT !.sendInvoice = decodedInvoice,
                                            !.isWitness = Includes(decodedInvoice, "wvout:"),
                                            !.amount = bridgeAmount]
                      /\ Goto("d_sendBegin")
                 ELSE /\ Throw(Err("Error", "bridge-in-signature"))
                      /\ UNCHANGED <<bridge, loc>>
    /\ UNCHANGED <<walletFields, engineState, arg, callerState, nOps>>

\* the request a Begin hands to utexoRGBWallet.sendBegin
SendRequest ==
    [kind |-> "send", invoice |-> loc.sendInvoice, amount |-> loc.amount,
     assetId |-> loc.assetId, witness |-> loc.isWitness, signed |-> FALSE]

\* RGBLibClient.sendBegin rejects a request it cannot complete
SendBeginAccepts(req) ==
    /\ Decodable(req.invoice)
    /\ req.assetId # NULL
    /\ req.amount # 0

\* a do-all that submits what Begin built without signing it
AfterBegin_SkipsSign(psbt) ==
    IF opName \in DoAllOps
    THEN /\ loc' = [loc EXCEPT !.psbt = SignedOf(psbt)]
         /\ opName' = opName /\ phase' = "End"
         /\ pc' = IF opName = "createUtxos" THEN "createUtxosEnd" ELSE "sendEnd"
         /\ UNCHANGED <<result, heldPsbt>>
    ELSE /\ Return(PsbtValue(psbt))
         /\ heldPsbt' = psbt
         /\ UNCHANGED loc

\* a wallet that keeps one draft transaction for all its flows: a do-all
\* goes on with the draft of a flow already in flight, if there is one
AfterBegin_SharedDraft(psbt) ==
    IF opName \in DoAllOps
    THEN /\ loc' = [loc EXCEPT !.psbt = IF parked.loc.psbt # NoPsbt
                                        THEN parked.loc.psbt ELSE psbt]
         /\ opName' = opName /\ phase' = "Sign" /\ pc' = "sign"
         /\ UNCHANGED <<result, heldPsbt>>
    ELSE /\ Return(PsbtValue(psbt))
         /\ heldPsbt' = psbt
         /\ UNCHANGED loc

\* what a finished Begin does next: return the PSBT, or go on to Sign
AfterBegin(psbt) ==
    IF opName \in DoAllOps
    THEN /\ loc' = [loc EXCEPT !.psbt = psbt]
         /\ opName' = opName /\ phase' = "Sign" /\ pc' = "sign"
         /\ UNCHANGED <<result, heldPsbt>>
    ELSE /\ Return(PsbtValue(psbt))
         /\ heldPsbt' = psbt
         /\ UNCHANGED loc

\* a Begin that hands the transaction it built to the wallet engine's submit
BeginSendBegin_Submits ==
    /\ phase = "Begin"
    /\ pc \in {"sendBegin", "d_sendBegin"}
    /\ \E ok \in BOOLEAN :
          /\ ok => /\ ~ disposed /\ SendBeginAccepts(SendRequest)
                   /\ Cardinality(broadcast) < MaxBroadcast
          /\ calls' = Append(calls, Call("engine", "sendBegin", ok))
          /\ IF ok
             THEN /\ AfterBegin(SendRequest)
                  /\ broadcast' = broadcast \cup {SignedOf(SendRequest)}
             ELSE /\ Throw(Err("EngineError", "sendBegin"))
                  /\ UNCHANGED <<loc, heldPsbt, broadcast>>
    /\ UNCHANGED <<walletFields, walletInvoices, bridge, arg, heldSigned, failedEnd, parked, nOps>>

\* utexoRGBWallet.sendBegin(request), the last await of a Begin
BeginSendBegin ==
    /\ phase = "Begin"
    /\ pc \in {"sendBegin", "d_sendBegin"}
    /\ \E ok \in BOOLEAN :
          /\ ok => ~ disposed /\ SendBeginAccepts(SendRequest)
          /\ calls' = Append(calls, Call("engine", "sendBegin", ok))
          /\ IF ok
             THEN AfterBegin(SendRequest)
             ELSE /\ Throw(Err("EngineError", "sendBegin"))
                  /\ UNCHANGED <<loc, heldPsbt>>
    /\ UNCHANGED <<walletFields, engineState, bridge, arg, heldSigned, failedEnd, parked, nOps>>

\* ------------------------------------------------------------------------
\* Sign: WalletManager.signPsbt, alone or as the second step of a do-all
\* ------------------------------------------------------------------------
signPsbt ==
    \E psbt \in {heldPsbt, GarbagePsbt}, mnemonic \in BOOLEAN :
       /\ Invoke("signPsbt", [NoArg EXCEPT !.psbt = psbt, !.mnemonic = mnemonic])
       /\ loc' = [NoLoc EXCEPT !.psbt = psbt]
       /\ IF ~ ensureInitialized
          THEN Finish("signPsbt", "thrown", NoValue, NotInitialized)
          ELSE Proceed("signPsbt", "Sign", "sign")
       /\ UNCHANGED <<walletFields, engineState, bridge, callerState>>

\* the signing engine signs PSBTs of the two shapes the wallet engine builds
SignerAccepts(psbt) == psbt.kind \in {"send", "create_utxo"}

AfterSign(signed) ==
    IF opName \in DoAllOps
    THEN /\ loc' = [loc EXCEPT !.psbt = signed]
         /\ opName' = opName /\ phase' = "End"
         /\ pc' = IF opName = "createUtxos" THEN "createUtxosEnd" ELSE "sendEnd"
         /\ UNCHANGED <<result, heldSigned>>
    ELSE /\ Return(PsbtValue(signed))
         /\ heldSigned' = signed
         /\ UNCHANGED loc

\* a Sign that asks the signing engine again after it failed
Sign_Retries ==
    /\ phase = "Sign"
    /\ pc = "sign"
    /\ IF disposed
       THEN /\ Throw(WalletDisposed)
            /\ UNCHANGED <<calls, loc, heldSigned>>
       ELSE IF ~ (arg.mnemonic \/ hasMnemonic)
       THEN /\ Throw(Err("WalletError", "mnemonic is required"))
            /\ UNCHANGED <<calls, loc, heldSigned>>
       ELSE \E ok \in BOOLEAN :
               /\ ok => SignerAccepts(loc.psbt)
               /\ calls' = Append(calls, Call("signer", "signPsbt", ok))
               /\ IF ok
                  THEN AfterSign(SignedOf(loc.psbt))
                  ELSE IF Len(calls) < 4
                  THEN Goto("sign") /\ UNCHANGED <<loc, heldSigned>>
                  ELSE /\ Throw(Err("CryptoError", "signPsbt"))
                       /\ UNCHANGED <<loc, heldSigned>>
    /\ UNCHANGED <<walletFields, engineState, bridge, arg, heldPsbt, failedEnd, parked, nOps>>

\* WalletManager.signPsbt: the guards, then the signing engine
Sign ==
    /\ phase = "Sign"
    /\ pc = "sign"
    /\ IF disposed
       THEN /\ Throw(WalletDisposed)
            /\ UNCHANGED <<calls, loc, heldSigned>>
       ELSE IF ~ (arg.mnemonic \/ hasMnemonic)
       THEN /\ Throw(Err("WalletError", "mnemonic is required"))
            /\ UNCHANGED <<calls, loc, heldSigned>>
       ELSE \E ok \in BOOLEAN :
               /\ ok => SignerAccepts(loc.psbt)
               /\ calls' = Append(calls, Call("signer", "signPsbt", ok))
               /\ IF ok
                  THEN AfterSign(SignedOf(loc.psbt))
                  ELSE /\ Throw(Err("CryptoError", "signPsbt"))
                       /\ UNCHANGED <<loc, heldSigned>>
    /\ UNCHANGED <<walletFields, engineState, bridge, arg, heldPsbt, failedEnd, parked, nOps>>

\* ------------------------------------------------------------------------
\* End: onchainSendEnd / payLightningInvoiceEnd, alone or as the last step
\* ------------------------------------------------------------------------
StartEnd(name, signedPsbt) ==
    /\ Invoke(name, [NoArg EXCEPT !.psbt = signedPsbt])
    /\ loc' = [NoLoc EXCEPT !.psbt = signedPsbt]
    /\ IF ~ ensureInitialized
       THEN Finish(name, "thrown", NoValue, NotInitialized)
       ELSE Proceed(name, "End", "sendEnd")
    /\ UNCHANGED <<walletFields, engineState, bridge, callerState>>

onchainSendEnd ==
    \E signedPsbt \in {heldSigned, heldPsbt} : StartEnd("onchainSendEnd", signedPsbt)

payLightningInvoiceEnd ==
    \E signedPsbt \in {heldSigned, heldPsbt} : StartEnd("payLightningInvoiceEnd", signedPsbt)

\* the wallet engine accepts a signed send it has not broadcast yet
SendEndAccepts(signedPsbt) ==
    /\ signedPsbt.kind = "send"
    /\ signedPsbt.signed
    /\ signedPsbt \notin broadcast

\* an End that drops the wallet's engine handle when the submission fails
SendEnd_ReleasesWallet ==
    /\ phase = "End"
    /\ pc = "sendEnd"
    /\ \E ok \in BOOLEAN :
          /\ ok => /\ ~ disposed
                   /\ SendEndAccepts(loc.psbt)
                   /\ Cardinality(broadcast) < MaxBroadcast
          /\ calls' = Append(calls, Call("engine", "sendEnd", ok))
          /\ IF ok
             THEN /\ broadcast' = broadcast \cup {loc.psbt}
                  /\ Return(SendResultValue(loc.psbt))
                  /\ UNCHANGED <<failedEnd, initialized>>
             ELSE /\ Throw(Err("EngineError", "sendEnd"))
                  /\ failedEnd' = IF opName \in EndOps THEN loc.psbt ELSE failedEnd
                  /\ initialized' = FALSE
                  /\ UNCHANGED broadcast
    /\ UNCHANGED <<preset, disposed, hasMnemonic, client, walletInvoices, bridge,
                   arg, loc, heldPsbt, heldSigned, parked, nOps>>

\* utexoRGBWallet.sendEnd({signedPsbt})
SendEnd ==
    /\ phase = "End"
    /\ pc = "sendEnd"
    /\ \E ok \in BOOLEAN :
          /\ ok => /\ ~ disposed
                   /\ SendEndAccepts(loc.psbt)
                   /\ Cardinality(broadcast) < MaxBroadcast
          /\ calls' = Append(calls, Call("engine", "sendEnd", ok))
          /\ IF ok
             THEN /\ broadcast' = broadcast \cup {loc.psbt}
                  /\ Return(SendResultValue(loc.psbt))
                  /\ UNCHANGED failedEnd
             ELSE /\ Throw(Err("EngineError", "sendEnd"))
                  /\ failedEnd' = IF opName \in EndOps THEN loc.psbt ELSE failedEnd
                  /\ UNCHANGED broadcast
    /\ UNCHANGED <<walletFields, walletInvoices, bridge, arg, loc,
                   heldPsbt, heldSigned, parked, nOps>>

\* ------------------------------------------------------------------------
\* WalletManager.send and WalletManager.createUtxos (through UTEXOWallet)
\* ------------------------------------------------------------------------
StartDoAll(name, a) ==
    /\ Invoke(name, a)
    /\ loc' = NoLoc
    /\ IF ~ ensureInitialized
       THEN Finish(name, "thrown", NoValue, NotInitialized)
       ELSE IF disposed
       THEN Finish(name, "thrown", NoValue, WalletDisposed)
       ELSE Proceed(name, "Begin", "wm_begin")
    /\ UNCHANGED <<walletFields, engineState, bridge, callerState>>

send ==
    \E invoice \in {UINV_2, BAD_INVOICE} :
       StartDoAll("send", [NoArg EXCEPT !.invoice = invoice, !.assetId = UTEXO_ASSET,
                                        !.amount = <<"1">>])

createUtxos == StartDoAll("createUtxos", NoArg)

CreateUtxosPsbt == [NoPsbt EXCEPT !.kind = "create_utxo"]

\* this.sendBegin(invoiceTransfer) / this.createUtxosBegin(params)
ManagerBegin ==
    /\ phase = "Begin"
    /\ pc = "wm_begin"
    /\ \E ok \in BOOLEAN :
          LET req == [kind |-> "send", invoice |-> arg.invoice,
                      amount |-> NumberOf(arg.amount), assetId |-> arg.assetId,
                      witness |-> FALSE, signed |-> FALSE]
              fn == IF opName = "send" THEN "sendBegin" ELSE "createUtxosBegin"
          IN  /\ ok => ~ disposed /\ (opName = "send" => SendBeginAccepts(req))
              /\ calls' = Append(calls, Call("engine", fn, ok))
              /\ IF ok
                 THEN AfterBegin(IF opName = "send" THEN req ELSE CreateUtxosPsbt)
                 ELSE /\ Throw(Err("EngineError", fn))
                      /\ UNCHANGED <<loc, heldPsbt>>
    /\ UNCHANGED <<walletFields, engineState, bridge, arg, heldSigned, failedEnd, parked, nOps>>

\* this.createUtxosEnd({signedPsbt})
CreateUtxosEnd ==
    /\ phase = "End"
    /\ pc = "createUtxosEnd"
    /\ \E ok \in BOOLEAN :
          /\ ok => /\ ~ disposed
                   /\ loc.psbt.kind = "create_utxo" /\ loc.psbt.signed
                   /\ Cardinality(broadcast) < MaxBroadcast
          /\ calls' = Append(calls, Call("engine", "createUtxosEnd", ok))
          /\ IF ok
             THEN /\ broadcast' = broadcast \cup {loc.psbt}
                  /\ Return(SendResultValue(loc.psbt))
             ELSE /\ Throw(Err("EngineError", "createUtxosEnd"))
                  /\ UNCHANGED broadcast
    /\ UNCHANGED <<walletFields, walletInvoices, bridge, arg, loc,
                   callerState, nOps>>

\* ------------------------------------------------------------------------
\* Status queries
\* ------------------------------------------------------------------------
StartStatus(name, invoice) ==
    /\ Invoke(name, [NoArg EXCEPT !.invoice = invoice])
    /\ loc' = NoLoc
    /\ IF name # "getOnchainSendStatus" /\ ~ ensureInitialized
       THEN Finish(name, "thrown", NoValue, NotInitialized)
       ELSE Proceed(name, "none", "s_lookup")
    /\ UNCHANGED <<walletFields, engineState, bridge, callerState>>

getOnchainSendStatus ==
    \E invoice \in RgbInvoices : StartStatus("getOnchainSendStatus", invoice)

getLightningSendRequest ==
    \E invoice \in LnInvoices : StartStatus("getLightningSendRequest", invoice)

getLightningReceiveRequest ==
    \E invoice \in LnInvoices : StartStatus("getLightningReceiveRequest", invoice)

\* a status query that asks the withdrawal history whatever the lookup found
StatusLookup_AlwaysHistory ==
    /\ opName \in StatusOps
    /\ pc = "s_lookup"
    /\ \E http \in HttpOutcomes :
          LET networkId == IF opName = "getOnchainSendStatus"
                           THEN networkIdMap.mainnet.networkId
                           ELSE networkIdMap.mainnetLightning.networkId
              r == getTransferByMainnetInvoice(http, bridge, arg.invoice, networkId)
          IN  /\ calls' = Append(calls, Call("bridge", "getTransferByMainnetInvoice",
                                             r.data # NoTransfer))
              /\ UNCHANGED loc /\ Goto("s_history")
    /\ UNCHANGED <<walletFields, engineState, bridge, arg, callerState, nOps>>

\* bridgeAPI.getTransferByMainnetInvoice(invoice, <mainnet network id>)
StatusLookup ==
    /\ opName \in StatusOps
    /\ pc = "s_lookup"
    /\ \E http \in HttpOutcomes :
          LET networkId == IF opName = "getOnchainSendStatus"
                           THEN networkIdMap.mainnet.networkId
                           ELSE networkIdMap.mainnetLightning.networkId
              r == getTransferByMainnetInvoice(http, bridge, arg.invoice, networkId)
          IN  /\ calls' = Append(calls, Call("bridge", "getTransferByMainnetInvoice",
                                             r.data # NoTransfer))
              /\ IF r.thrown
                 THEN Throw(Err("AxiosError", "transfer-by-mainnet-invoice"))
                      /\ UNCHANGED loc
                 ELSE IF r.data # NoTransfer
                 THEN loc' = [loc EXCEPT !.bt = r.data] /\ Goto("s_decode")
                 ELSE UNCHANGED loc /\ Goto("s_history")
    /\ UNCHANGED <<walletFields, engineState, bridge, arg, callerState, nOps>>

\* bridgeAPI.getWithdrawTransfer(invoice, networkIdMap.utexo.networkId)
StatusHistory ==
    /\ opName \in StatusOps
    /\ pc = "s_history"
    /\ \E http \in HttpOutcomes, order \in HistoryOrders :
          LET r == getWithdrawTransfer(http, bridge, arg.invoice,
                                       networkIdMap.utexo.networkId, order)
          IN  /\ calls' = Append(calls, Call("bridge", "getWithdrawTransfer", ~ r.thrown))
              /\ IF r.thrown
                 THEN Throw(Err("AxiosError", "transfers/history"))
                 ELSE IF r.data = NoTransfer
                 THEN Return(NullValue)
                 ELSE Return(StatusValue(
                         TransferStatuses(encodeTransferStatus(r.data.status))))
    /\ UNCHANGED <<walletFields, engineState, bridge, arg, loc, callerState, nOps>>

\* extractInvoiceAndAsset(bridgeTransfer)
StatusDecode ==
    /\ opName \in StatusOps
    /\ pc = "s_decode"
    /\ IF ~ ensureInitialized
       THEN Throw(NotInitialized) /\ UNCHANGED <<calls, loc>>
       ELSE \E ok \in BOOLEAN :
               LET utexoInvoice == loc.bt.recipientAddress
                   destinationAsset ==
                       getAssetById(networkIdMap.utexo, loc.bt.recipientTokenId)
               IN  /\ ok => ~ disposed /\ Decodable(utexoInvoice)
                   /\ calls' = Append(calls, Call("engine", "decodeRGBInvoice", ok))
                   /\ IF ~ ok
                      THEN Throw(Err("EngineError", "decodeRGBInvoice")) /\ UNCHANGED loc
                      ELSE IF destinationAsset = NoAsset
                      THEN Throw(Err("ValidationError", "assetId")) /\ UNCHANGED loc
                      ELSE /\ loc' = [loc EXCEPT !.tables = @ \cup {networkIdMap.preset},
                                                 !.sendInvoice = utexoInvoice,
                                                 !.assetId = destinationAsset.assetId]
                           /\ Goto("s_list")
    /\ UNCHANGED <<walletFields, engineState, bridge, arg, callerState, nOps>>

\* transfer lists the wallet engine may report for an asset
TransferLists ==
    { << >>,
      <<[recipientId |-> <<"utxob:", "rgb:utexo2">>, status |-> "Settled"]>>,
      <<[recipientId |-> <<"wvout:", "rgb:other">>, status |-> "Failed"],
        [recipientId |-> <<"utxob:", "rgb:utexo2">>, status |-> "WaitingConfirmations"]>>,
      <<[recipientId |-> <<"wvout:", "rgb:other">>, status |-> "WaitingCounterparty"]>> }

\* a lookup that takes the status of the first local transfer, whoever receives it
FindStatus_FirstEntry(transfers, recipientId) ==
    IF Len(transfers) > 0 THEN StatusValue(transfers[1].status) ELSE NullValue

\* transfers.find(t => t.recipientId === recipientId)?.status ?? null
FindStatus(transfers, recipientId) ==
    LET i == FirstIndex({k \in 1..Len(transfers) : transfers[k].recipientId = recipientId})
    IN  IF Len(transfers) > 0 /\ i # 0 THEN StatusValue(transfers[i].status)
        ELSE NullValue

\* a status query that has the engine refresh its transfers before listing them
StatusListTransfers_Refreshes ==
    /\ opName \in StatusOps
    /\ pc = "s_list"
    /\ \E ok \in BOOLEAN, transfers \in TransferLists :
          /\ ok => ~ disposed
          /\ ~ ok => transfers = << >>
          /\ calls' = calls \o <<Call("engine", "refresh", ok),
                                  Call("engine", "listTransfers", ok)>>
          /\ loc' = [loc EXCEPT !.transfers = transfers]
          /\ IF ok
             THEN Return(FindStatus(transfers, InvoiceData(loc.sendInvoice).recipientId))
             ELSE Throw(Err("EngineError", "listTransfers"))
    /\ UNCHANGED <<walletFields, engineState, bridge, arg, callerState, nOps>>

\* utexoRGBWallet.listTransfers(destinationAsset.assetId) and the match
StatusListTransfers ==
    /\ opName \in StatusOps
    /\ pc = "s_list"
    /\ \E ok \in BOOLEAN, transfers \in TransferLists :
          /\ ok => ~ disposed
          /\ ~ ok => transfers = << >>
          /\ calls' = Append(calls, Call("engine", "listTransfers", ok))
          /\ loc' = [loc EXCEPT !.transfers = transfers]
          /\ IF ok
             THEN Return(FindStatus(transfers, InvoiceData(loc.sendInvoice).recipientId))
             ELSE Throw(Err("EngineError", "listTransfers"))
    /\ UNCHANGED <<walletFields, engineState, bridge, arg, callerState, nOps>>

\* listOnchainTransfers(asset_id): the guard, then the engine's own listing
listOnchainTransfers ==
    /\ Invoke("listOnchainTransfers", NoArg)
    /\ loc' = NoLoc
    /\ IF ~ ensureInitialized
       THEN Finish("listOnchainTransfers", "thrown", NoValue, NotInitialized)
       ELSE Proceed("listOnchainTransfers", "none", "l_list")
    /\ UNCHANGED <<walletFields, engineState, bridge, callerState>>

\* utexoRGBWallet.listTransfers(asset_id), returned as it is
ListTransfers ==
    /\ opName = "listOnchainTransfers"
    /\ pc = "l_list"
    /\ \E ok \in BOOLEAN, transfers \in TransferLists :
          /\ ok => ~ disposed
          /\ ~ ok => transfers = << >>
          /\ calls' = Append(calls, Call("engine", "listTransfers", ok))
          /\ loc' = [loc EXCEPT !.transfers = transfers]
          /\ IF ok
             THEN Return(TransfersValue)
             ELSE Throw(Err("EngineError", "listTransfers"))
    /\ UNCHANGED <<walletFields, engineState, bridge, arg, callerState, nOps>>

\* the caller takes the settled result; the wallet is ready for a next call
Settle ==
    /\ pc = "done"
    /\ opName' = "idle"
    /\ pc' = "idle"
    /\ result' = NoResult
    /\ arg' = NoArg
    /\ loc' = NoLoc
    /\ calls' = << >>
    /\ UNCHANGED <<walletFields, engineState, bridge, phase, callerState, nOps>>

\* ------------------------------------------------------------------------
\* Specification
\* ------------------------------------------------------------------------
Next ==
    \/ initialize
    \/ dispose
    \/ onchainReceive
    \/ createLightningInvoice
    \/ ReceiveWitnessReceive
    \/ ReceiveBridgeIn
    \/ onchainSendBegin
    \/ onchainSend
    \/ payLightningInvoiceBegin
    \/ payLightningInvoice
    \/ BeginLookup
    \/ BeginDecode
    \/ DirectDecode
    \/ BeginValidateBalance
    \/ DirectBridgeOut
    \/ BeginSendBegin
    \/ signPsbt
    \/ Sign
    \/ onchainSendEnd
    \/ payLightningInvoiceEnd
    \/ SendEnd
    \/ send
    \/ createUtxos
    \/ ManagerBegin
    \/ CreateUtxosEnd
    \/ getOnchainSendStatus
    \/ getLightningSendRequest
    \/ getLightningReceiveRequest
    \/ StatusLookup
    \/ StatusHistory
    \/ StatusDecode
    \/ StatusListTransfers
    \/ listOnchainTransfers
    \/ ListTransfers
    \/ Settle

Spec == Init /\ [][Next]_vars

\* ------------------------------------------------------------------------
\* Two transfer flows on one initialized wallet.  The event loop runs one
\* flow at a time and may pass from one to the other at every await.
\* ------------------------------------------------------------------------
ConcurrentInit ==
    /\ preset \in {"mainnet", "testnet"}
    /\ initialized = TRUE
    /\ disposed = FALSE
    /\ hasMnemonic = TRUE
    /\ client = NewClient
    /\ walletInvoices = {}
    /\ broadcast = {}
    /\ bridge = InitialBridge
    /\ opName = "idle"
    /\ phase = "none"
    /\ pc = "idle"
    /\ arg = NoArg
    /\ loc = NoLoc
    /\ calls = << >>
    /\ result = NoResult
    /\ heldPsbt = NoPsbt
    /\ heldSigned = NoPsbt
    /\ failedEnd = NoPsbt
    /\ parked = NoContext
    /\ nOps = 0

\* the flow in flight waits at its await (or has settled); the other one runs
Switch ==
    /\ pc # "idle"
    /\ parked.pc # "done"
    /\ parked' = Context(opName, phase, pc, arg, loc, calls, result)
    /\ opName' = parked.opName
    /\ phase' = parked.phase
    /\ pc' = parked.pc
    /\ arg' = parked.arg
    /\ loc' = parked.loc
    /\ calls' = parked.calls
    /\ result' = parked.result
    /\ UNCHANGED <<walletFields, engineState, bridge, heldPsbt, heldSigned,
                   failedEnd, nOps>>

\* a transfer flow is started for an invoice no flow in flight is paying
StartFlow ==
    /\ onchainSend \/ payLightningInvoice
    /\ arg'.invoice # parked.arg.invoice

ConcurrentNext ==
    \/ StartFlow
    \/ BeginLookup
    \/ BeginDecode
    \/ DirectDecode
    \/ BeginValidateBalance
    \/ DirectBridgeOut
    \/ BeginSendBegin
    \/ Sign
    \/ SendEnd
    \/ Switch

ConcurrentSpec == ConcurrentInit /\ [][ConcurrentNext]_vars

\* ------------------------------------------------------------------------
\* The helper functions on their own: a run applies one helper to one input
\* ------------------------------------------------------------------------
\* decimal texts: an optional sign, an integer part, an optional fraction
Signs == {<< >>, <<"-">>}
IntegerParts ==
    { << >>, <<"0">>, <<"1">>, <<"0", "1">>, <<"1", "2">>, <<"2", "1", "4">>,
      <<"9", "0", "0", "7", "1", "9", "9", "2", "5", "4", "7", "4", "0", "9", "9", "2">>,
      <<"9", "9", "9", "9", "9", "9", "9", "9", "9", "9",
        "9", "9", "9", "9", "9", "9", "9", "9", "9", "9">> }
FractionParts ==
    { << >>, <<"5">>, <<"5", "0">>, <<"0", "5">>,
      <<"1", "2", "3", "4", "5", "6">>, <<"1", "2", "3", "4", "5", "6", "7">> }
Precisions == {0, 2, 6}

DecimalText(sign, int, frac) ==
    sign \o int \o (IF frac = << >> THEN << >> ELSE <<".">> \o frac)

NoInput ==
    [fn |-> "none", sign |-> << >>, int |-> << >>, frac |-> << >>, value |-> << >>,
     precision |-> 0, senderNetwork |-> "mainnet", destinationNetwork |-> "mainnet",
     assetId |-> NULL, hex |-> << >>, psbt |-> [parseable |-> FALSE, inputs |-> << >>],
     psbtModule |-> TRUE, path |-> [kind |-> "string", text |-> << >>, segs |-> << >>],
     secret |-> [kind |-> "none", wellFormed |-> FALSE, root |-> "none"],
     preprocess |-> FALSE, network |-> "testnet"]

UnitsInputs ==
    { [NoInput EXCEPT !.fn = "toUnitsNumber", !.sign = s, !.int = i, !.frac = f,
                      !.value = DecimalText(s, i, f), !.precision = p] :
         s \in Signs, i \in IntegerParts, f \in FractionParts, p \in Precisions }

AssetInputs ==
    { [NoInput EXCEPT !.fn = "getDestinationAsset", !.senderNetwork = sn,
                      !.destinationNetwork = dn, !.assetId = a] :
         sn \in NetworkNames, dn \in NetworkNames,
         a \in {NULL, RGB_ASSET, UTEXO_ASSET, UNKNOWN_ASSET} }

\* ------------------------------------------------------------------------
\* PsbtSigner: derivation paths and the classification of a transaction.
\* A path is the sequence of its segments, each an index and its hardened
\* flag (the word p of the index array: p >= 0x80000000, p & 0x7fffffff); a
\* path text is a sequence of characters.
\* ------------------------------------------------------------------------
Seg(index, hardened) == [index |-> index, hardened |-> hardened]

\* the text of one segment: the index, then ' when hardened
SegmentText(seg) ==
    NatDigits(seg.index) \o (IF seg.hardened THEN <<"'">> ELSE << >>)

\* path.map(...).join('/')
RECURSIVE pathToString(_)
pathToString(path) ==
    IF Len(path) = 0 THEN << >>
    ELSE IF Len(path) = 1 THEN SegmentText(path[1])
    ELSE SegmentText(path[1]) \o <<"/">> \o pathToString(Tail(path))

\* String.prototype.includes
StrIncludes(str, sub) ==
    \E i \in 1..(Len(str) - Len(sub) + 1) : SubSeq(str, i, i + Len(sub) - 1) = sub

\* the two texts detectPsbtType searches for
RGB_COIN_TEXTS ==
    { <<"8", "2", "7", "1", "6", "7", "'">>, <<"8", "2", "7", "1", "6", "6", "'">> }

\* detectPsbtType: "send" when a Taproot derivation path of an input includes
\* one of the two texts; "create_utxo" otherwise and when parsing throws
detectPsbtType(psbt) ==
    IF ~ psbt.parseable THEN "create_utxo"
    ELSE IF \E i \in 1..Len(psbt.inputs) :
               \E d \in 1..Len(psbt.inputs[i]) :
                  \E text \in RGB_COIN_TEXTS :
                     StrIncludes(pathToString(psbt.inputs[i][d]), text)
    THEN "send"
    ELSE "create_utxo"

\* derivation paths of transaction inputs
PATH_ACCOUNT == <<Seg(86, TRUE), Seg(1, TRUE), Seg(0, TRUE), Seg(0, FALSE), Seg(5, FALSE)>>
PATH_RGB_TESTNET ==
    <<Seg(86, TRUE), Seg(827167, TRUE), Seg(0, TRUE), Seg(9, FALSE), Seg(0, FALSE)>>
PATH_RGB_MAINNET ==
    <<Seg(86, TRUE), Seg(827166, TRUE), Seg(0, TRUE), Seg(9, FALSE), Seg(1, FALSE)>>
PATH_OTHER_COIN ==
    <<Seg(86, TRUE), Seg(1827167, TRUE), Seg(0, TRUE), Seg(0, FALSE), Seg(0, FALSE)>>
PATH_UNHARDENED ==
    <<Seg(86, TRUE), Seg(1, TRUE), Seg(0, TRUE), Seg(827167, FALSE), Seg(0, FALSE)>>
DerivationPaths ==
    {PATH_ACCOUNT, PATH_RGB_TESTNET, PATH_RGB_MAINNET, PATH_OTHER_COIN, PATH_UNHARDENED}

\* the tapBip32Derivation entries of one input
TapDerivations ==
    {<< >>} \cup { <<p>> : p \in DerivationPaths }
            \cup { <<p, q>> : p \in DerivationPaths, q \in DerivationPaths }

\* what signPsbt is handed: text that does not parse, or a transaction
Psbts ==
    { [parseable |-> FALSE, inputs |-> << >>] }
       \cup { [parseable |-> TRUE, inputs |-> ins] :
                ins \in {<< >>} \cup { <<d>> : d \in TapDerivations }
                       \cup { <<<<p>>, d>> : p \in DerivationPaths,
                                             d \in {<< >>} \cup { <<q>> : q \in DerivationPaths } } }

PsbtInputs ==
    { [NoInput EXCEPT !.fn = "detectPsbtType", !.psbt = t, !.psbtModule = m] :
         t \in Psbts, m \in BOOLEAN }

PsbtTypeValue(type) == [NoValue EXCEPT !.kind = "psbtType", !.status = type]

\* ------------------------------------------------------------------------
\* PsbtSigner: signing.  A derivation path is a text ("m/86'/...") or an
\* index array; a key is named by the root it was derived from and the path
\* text walked; an output script by its internal key and network.
\* ------------------------------------------------------------------------
StringPath(text) == [kind |-> "string", text |-> text, segs |-> << >>]
ArrayPath(segs) == [kind |-> "array", text |-> << >>, segs |-> segs]

\* str.startsWith(prefix)
StartsWith(str, prefix) ==
    Len(str) >= Len(prefix) /\ SubSeq(str, 1, Len(prefix)) = prefix

\* normalizePath: a text starting with "m/m/" loses one "m/"; an array
\* starting with 0 and a hardened second word loses the 0
normalizePath(path) ==
    IF path.kind = "string"
    THEN IF StartsWith(path.text, <<"m", "/", "m", "/">>)
         THEN StringPath(<<"m", "/">> \o SliceFrom(path.text, 5))
         ELSE path
    ELSE IF Len(path.segs) > 1 /\ path.segs[1] = Seg(0, FALSE) /\ path.segs[2].hardened
         THEN ArrayPath(Tail(path.segs))
         ELSE path

\* pathToString of a text or an index array
DerivationPathText(path) ==
    IF path.kind = "string" THEN path.text ELSE pathToString(path.segs)

\* one segment of a path text the key library accepts: digits, then '
PathSegment(seg) ==
    LET body == IF Len(seg) > 0 /\ seg[Len(seg)] = "'" THEN SliceTo(seg, Len(seg) - 1)
                ELSE seg
    IN  /\ Len(body) > 0
        /\ \A i \in 1..Len(body) : body[i] \in Digit

\* the path texts the key library accepts behind "m/": segments joined by /
RECURSIVE PathSegments(_)
PathSegments(text) ==
    LET slash == IndexOf(text, "/")
    IN  IF slash = 0 THEN PathSegment(text)
        ELSE /\ PathSegment(SliceTo(text, slash - 1))
             /\ PathSegments(SliceFrom(text, slash + 1))

\* rootNode.derivePath(pathStr): the node of the path, or a throw when the
\* text is not a path from the root
derivePath(rootNode, pathStr) ==
    IF StartsWith(pathStr, <<"m", "/">>) /\ PathSegments(SliceFrom(pathStr, 3))
    THEN [ok |-> TRUE, publicKey |-> [prefix |-> "02", root |-> rootNode, path |-> pathStr]]
    ELSE [ok |-> FALSE, publicKey |-> [prefix |-> "none", root |-> "none", path |-> << >>]]

\* derivation paths in the transactions handed to the signer: texts with
\* one, two and three root prefixes, index arrays with and without a
\* leading 0, and the empty array
PathTextOf(segs) == <<"m", "/">> \o pathToString(segs)
TEXT_RGB == StringPath(PathTextOf(PATH_RGB_TESTNET))
TEXT_RGB_TWICE == StringPath(<<"m", "/">> \o PathTextOf(PATH_RGB_TESTNET))
TEXT_RGB_THRICE == StringPath(<<"m", "/", "m", "/">> \o PathTextOf(PATH_RGB_TESTNET))
TEXT_ACCOUNT == StringPath(PathTextOf(PATH_ACCOUNT))
TEXT_ACCOUNT_TWICE == StringPath(<<"m", "/">> \o PathTextOf(PATH_ACCOUNT))
ARRAY_RGB == ArrayPath(PATH_RGB_MAINNET)
ARRAY_RGB_ZERO == ArrayPath(<<Seg(0, FALSE)>> \o PATH_RGB_MAINNET)
ARRAY_EMPTY == ArrayPath(<< >>)
SignerPaths ==
    {TEXT_RGB, TEXT_RGB_TWICE, TEXT_RGB_THRICE, TEXT_ACCOUNT, TEXT_ACCOUNT_TWICE,
     ARRAY_RGB, ARRAY_RGB_ZERO, ARRAY_EMPTY}

\* paths handed to normalizePath
PathInputs ==
    { [NoInput EXCEPT !.fn = "normalizePath", !.path = p] :
         p \in SignerPaths \cup {ArrayPath(<<Seg(0, FALSE), Seg(0, FALSE)>> \o PATH_RGB_TESTNET)} }

\* hex payloads the bridge may write: the hex text of an invoice
HexPayloads ==
    { HexEncode(inv) :
         inv \in { << >>, <<"binv1">>, <<"binv1", "wvout:">>, <<"binv2", "utxob:">>,
                   <<"binv3", "wvout:">>, <<"wvout:", "binv1">> } }

HexInputs ==
    { [NoInput EXCEPT !.fn = "decodeBridgeInvoice", !.hex = h] : h \in HexPayloads }

HelperInit ==
    /\ preset = "testnet"
    /\ initialized = FALSE
    /\ disposed = FALSE
    /\ hasMnemonic = FALSE
    /\ client = NoClient
    /\ walletInvoices = {}
    /\ broadcast = {}
    /\ bridge = InitialBridge
    /\ opName = "idle"
    /\ phase = "none"
    /\ pc = "call"
    /\ arg \in UnitsInputs \cup AssetInputs \cup HexInputs \cup PsbtInputs \cup PathInputs
    /\ loc = NoLoc
    /\ calls = << >>
    /\ result = NoResult
    /\ heldPsbt = NoPsbt
    /\ heldSigned = NoPsbt
    /\ failedEnd = NoPsbt
    /\ parked = NoContext
    /\ nOps = 0

\* toUnitsNumber(value, precision): the base units, or the overflow error
ApplyToUnitsNumber ==
    /\ pc = "call"
    /\ arg.fn = "toUnitsNumber"
    /\ LET units == toUnitsNumber(arg.value, arg.precision)
       IN  /\ result' = [op |-> "toUnitsNumber",
                         status |-> IF units.ok THEN "returned" ELSE "thrown",
                         value |-> units.val,
                         err |-> IF units.ok THEN NoErr
                                 ELSE Err("Error", "MAX_SAFE_INTEGER")]
           /\ pc' = IF units.ok THEN "converted" ELSE "done"
    /\ opName' = "toUnitsNumber"
    /\ UNCHANGED <<walletFields, engineState, bridge, phase, arg, loc, calls,
                   callerState, nOps>>

\* fromUnitsNumber(units, precision) of the base units just computed
ApplyFromUnitsNumber ==
    /\ pc = "converted"
    /\ loc' = [loc EXCEPT !.amountText = fromUnitsNumber(result.value, arg.precision)]
    /\ pc' = "done"
    /\ opName' = "fromUnitsNumber"
    /\ UNCHANGED <<walletFields, engineState, bridge, phase, arg, calls, result,
                   callerState, nOps>>

\* getDestinationAsset(senderNetwork, destinationNetwork, assetIdSender)
ApplyGetDestinationAsset ==
    /\ pc = "call"
    /\ arg.fn = "getDestinationAsset"
    /\ result' = [op |-> "getDestinationAsset", status |-> "returned",
                  value |-> getDestinationAsset(arg.senderNetwork,
                                                arg.destinationNetwork, arg.assetId),
                  err |-> NoErr]
    /\ pc' = "done"
    /\ opName' = "getDestinationAsset"
    /\ UNCHANGED <<walletFields, engineState, bridge, phase, arg, loc, calls,
                   callerState, nOps>>

\* decodeBridgeInvoice of the payload behind "0x", then of the bare payload
ApplyDecodeBridgeInvoice ==
    /\ pc = "call"
    /\ arg.fn = "decodeBridgeInvoice"
    /\ result' = [op |-> "decodeBridgeInvoice", status |-> "returned",
                  value |-> InvoiceValue(decodeBridgeInvoice(<<"0x">> \o arg.hex)),
                  err |-> NoErr]
    /\ loc' = [loc EXCEPT !.sendInvoice = decodeBridgeInvoice(arg.hex)]
    /\ pc' = "done"
    /\ opName' = "decodeBridgeInvoice"
    /\ UNCHANGED <<walletFields, engineState, bridge, phase, arg, calls,
                   callerState, nOps>>

\* detectPsbtType(psbtBase64, deps)
ApplyDetectPsbtType ==
    /\ pc = "call"
    /\ arg.fn = "detectPsbtType"
    /\ result' = IF ~ arg.psbtModule
                 THEN [op |-> "detectPsbtType", status |-> "thrown", value |-> NoValue,
                       err |-> Err("CryptoError", "Psbt")]
                 ELSE [op |-> "detectPsbtType", status |-> "returned",
                       value |-> PsbtTypeValue(detectPsbtType(arg.psbt)), err |-> NoErr]
    /\ pc' = "done"
    /\ opName' = "detectPsbtType"
    /\ UNCHANGED <<walletFields, engineState, bridge, phase, arg, loc, calls,
                   callerState, nOps>>

\* normalizePath(path), and normalizePath of what it returned
ApplyNormalizePath ==
    /\ pc \in {"call", "normalized"}
    /\ arg.fn = "normalizePath"
    /\ loc' = [loc EXCEPT !.paths =
                  Append(@, normalizePath(IF @ = << >> THEN arg.path ELSE @[Len(@)]))]
    /\ pc' = IF pc = "call" THEN "normalized" ELSE "done"
    /\ opName' = "normalizePath"
    /\ UNCHANGED <<walletFields, engineState, bridge, phase, arg, calls, result,
                   callerState, nOps>>

HelperNext ==
    \/ ApplyNormalizePath
    \/ ApplyDetectPsbtType
    \/ ApplyDecodeBridgeInvoice
    \/ ApplyToUnitsNumber
    \/ ApplyFromUnitsNumber
    \/ ApplyGetDestinationAsset

HelperSpec == HelperInit /\ [][HelperNext]_vars

\* toXOnly: the key without its first byte
toXOnly(pubkey) == [root |-> pubkey.root, path |-> pubkey.path]
NoKey == [root |-> "none", path |-> << >>]

\* payments.p2tr({ internalPubkey, network }).output
p2tr(internalPubkey, bjsNet) == [internalPubkey |-> internalPubkey, network |-> bjsNet]
NoScript == p2tr(NoKey, "none")

\* getMasterFingerprint(rootNode), Buffer.from(fp, 'hex')
calculateMasterFingerprint(rootNode) == [of |-> rootNode]
NoFingerprint == [of |-> "none"]

\* one tapBip32Derivation entry; one transaction input
Derivation(path, pubkey, masterFingerprint) ==
    [path |-> path, pubkey |-> pubkey, masterFingerprint |-> masterFingerprint]
TxInput(tap, legacy, hasUtxo, script, internalKey) ==
    [tapBip32Derivation |-> tap, bip32Derivation |-> legacy, witnessUtxo |-> hasUtxo,
     script |-> script, tapInternalKey |-> internalKey]

\* the path text handed to derivePath for an entry: the normalised path as
\* text, behind "m/" when it does not start with it
PathStr(path) ==
    LET text == DerivationPathText(normalizePath(path))
    IN  IF StartsWith(text, <<"m", "/">>) THEN text ELSE <<"m", "/">> \o text

ReconcileEntry_KeepsFingerprint(input, k, rootNode, fp, bjsNet) ==
    LET deriv == input.tapBip32Derivation[k]
        text == DerivationPathText(normalizePath(deriv.path))
        derivedNode == derivePath(rootNode, PathStr(deriv.path))
        xOnly == toXOnly(derivedNode.publicKey)
    IN  IF ~ derivedNode.ok
        THEN [input EXCEPT !.tapBip32Derivation[k].path = StringPath(text)]
        ELSE [input EXCEPT
                !.script = IF input.witnessUtxo THEN p2tr(xOnly, bjsNet) ELSE @,
                !.tapInternalKey = xOnly,
                !.tapBip32Derivation[k] =
                    Derivation(StringPath(text), xOnly, deriv.masterFingerprint)]

\* the body of tapBip32Derivation.forEach for entry k of an input: the path
\* is rewritten as normalised text; when the path derives, the input's
\* script (when it has a witnessUtxo) and internal key and the entry's
\* fingerprint and key are set to the recomputed values; a throw of
\* derivePath is caught and leaves the rest of the entry as it was
ReconcileEntry(input, k, rootNode, fp, bjsNet) ==
    LET deriv == input.tapBip32Derivation[k]
        text == DerivationPathText(normalizePath(deriv.path))
        derivedNode == derivePath(rootNode, PathStr(deriv.path))
        xOnly == toXOnly(derivedNode.publicKey)
    IN  IF ~ derivedNode.ok
        THEN [input EXCEPT !.tapBip32Derivation[k].path = StringPath(text)]
        ELSE [input EXCEPT
                !.script = IF input.witnessUtxo THEN p2tr(xOnly, bjsNet) ELSE @,
                !.tapInternalKey = xOnly,
                !.tapBip32Derivation[k] =
                    Derivation(StringPath(text), xOnly, fp)]

\* tapBip32Derivation.forEach from entry k on
RECURSIVE ReconcileEntries(_, _, _, _, _)
ReconcileEntries(input, k, rootNode, fp, bjsNet) ==
    IF k > Len(input.tapBip32Derivation) THEN input
    ELSE ReconcileEntries(ReconcileEntry(input, k, rootNode, fp, bjsNet), k + 1,
                          rootNode, fp, bjsNet)

\* bip32Derivation.forEach: each legacy path is rewritten as normalised text
NormalizeLegacy(input) ==
    [input EXCEPT !.bip32Derivation =
        [k \in 1..Len(input.bip32Derivation) |->
            [path |-> StringPath(DerivationPathText(normalizePath(
                                    input.bip32Derivation[k].path)))]]]

preprocessPsbtForBDK_AbortsOnUnwalkable(psbt, rootNode, fp, network) ==
    LET bjsNet == IF network = "mainnet" THEN "bitcoin" ELSE "testnet"
    IN  IF \/ ~ psbt.parseable
           \/ \E i \in 1..Len(psbt.inputs) :
                 \E d \in 1..Len(psbt.inputs[i].tapBip32Derivation) :
                    ~ derivePath(rootNode,
                                 PathStr(psbt.inputs[i].tapBip32Derivation[d].path)).ok
        THEN [ok |-> FALSE, psbt |-> psbt]
        ELSE [ok |-> TRUE,
              psbt |-> [psbt EXCEPT !.inputs =
                          [i \in 1..Len(psbt.inputs) |->
                              NormalizeLegacy(ReconcileEntries(psbt.inputs[i], 1, rootNode,
                                                               fp, bjsNet))]]]

\* preprocessPsbtForBDK: throws when the text is not a transaction; else
\* every input is reconciled and the transaction is encoded again
preprocessPsbtForBDK(psbt, rootNode, fp, network) ==
    LET bjsNet == IF network = "mainnet" THEN "bitcoin" ELSE "testnet"
    IN  IF ~ psbt.parseable THEN [ok |-> FALSE, psbt |-> psbt]
        ELSE [ok |-> TRUE,
              psbt |-> [psbt EXCEPT !.inputs =
                          [i \in 1..Len(psbt.inputs) |->
                              NormalizeLegacy(ReconcileEntries(psbt.inputs[i], 1, rootNode,
                                                               fp, bjsNet))]]]

\* detectPsbtType over the entries of a transaction
detectPsbtTypeOf(psbt) ==
    IF ~ psbt.parseable THEN "create_utxo"
    ELSE IF \E i \in 1..Len(psbt.inputs) :
               \E d \in 1..Len(psbt.inputs[i].tapBip32Derivation) :
                  \E text \in RGB_COIN_TEXTS :
                     StrIncludes(DerivationPathText(
                                    psbt.inputs[i].tapBip32Derivation[d].path), text)
    THEN "send"
    ELSE "create_utxo"

\* the wallet's root and the root of another wallet
ROOT == "root"
OTHER_ROOT == "other"
StaleKey == [root |-> OTHER_ROOT, path |-> PathTextOf(PATH_ACCOUNT)]

\* an entry as the wallet engine wrote it for this wallet, and one carrying
\* the key and fingerprint of another root
EntryOf(path) ==
    Derivation(path, toXOnly(derivePath(ROOT, PathStr(path)).publicKey),
               calculateMasterFingerprint(ROOT))
StaleEntryOf(path) == Derivation(path, StaleKey, calculateMasterFingerprint(OTHER_ROOT))
SignerEntries == { EntryOf(p) : p \in SignerPaths } \cup { StaleEntryOf(p) : p \in SignerPaths }

\* inputs with up to two Taproot entries, with and without a witnessUtxo
\* and a legacy entry
SignerTxInputs ==
    { TxInput(tap, legacy, utxo, IF utxo THEN p2tr(StaleKey, "testnet") ELSE NoScript, key) :
         tap \in {<< >>} \cup { <<d>> : d \in SignerEntries }
                \cup { <<StaleEntryOf(p), StaleEntryOf(q)>> : p \in SignerPaths, q \in SignerPaths },
         legacy \in { << >>, <<[path |-> TEXT_ACCOUNT_TWICE]>> },
         utxo \in BOOLEAN,
         key \in {NoKey} }

\* what the signer is handed: text that is no transaction, or a transaction
\* of up to two inputs
NoTx == [parseable |-> FALSE, inputs |-> << >>]
SignerTxs ==
    {NoTx}
      \cup { [parseable |-> TRUE, inputs |-> ins] :
               ins \in {<< >>} \cup { <<i>> : i \in SignerTxInputs }
                      \cup { <<TxInput(<<StaleEntryOf(p)>>, << >>, TRUE,
                                       p2tr(StaleKey, "testnet"), StaleKey),
                               TxInput(<<StaleEntryOf(q)>>, << >>, TRUE,
                                       p2tr(StaleKey, "testnet"), StaleKey)>> :
                                p \in SignerPaths, q \in SignerPaths } }

\* a mnemonic or a seed, well-formed or not
Secret(kind, wellFormed) == [kind |-> kind, wellFormed |-> wellFormed, root |-> ROOT]

SignInputs ==
    { [NoInput EXCEPT !.fn = f, !.psbt = tx, !.preprocess = pre,
                      !.secret = Secret(IF f = "signPsbt" THEN "mnemonic" ELSE "seed", w)] :
         f \in {"signPsbt", "signPsbtFromSeed"}, tx \in SignerTxs, pre \in BOOLEAN,
         w \in BOOLEAN }

SignerInit ==
    /\ preset = "testnet"
    /\ initialized = FALSE
    /\ disposed = FALSE
    /\ hasMnemonic = FALSE
    /\ client = NoClient
    /\ walletInvoices = {}
    /\ broadcast = {}
    /\ bridge = InitialBridge
    /\ opName = "idle"
    /\ phase = "none"
    /\ pc = "call"
    /\ arg \in SignInputs
    /\ loc = NoLoc
    /\ calls = << >>
    /\ result = NoResult
    /\ heldPsbt = NoPsbt
    /\ heldSigned = NoPsbt
    /\ failedEnd = NoPsbt
    /\ parked = NoContext
    /\ nOps = 0

\* the signer throws: the error is the result and nothing else changes
SignerThrow(type, field) ==
    /\ result' = [op |-> arg.fn, status |-> "thrown", value |-> NoValue,
                  err |-> Err(type, field)]
    /\ pc' = "done"

\* validateMnemonic(mnemonic, 'mnemonic'): throws on a malformed mnemonic
validateMnemonic(mnemonic) == mnemonic.wellFormed

\* normalizeSeedInput(seed): throws on a malformed seed
normalizeSeedInput(seed) == [ok |-> seed.wellFormed, seed |-> seed]

\* bip39.mnemonicToSeedSync(mnemonic): the seed of the mnemonic
mnemonicToSeedSync(mnemonic) == [mnemonic EXCEPT !.kind = "seed"]

\* signPsbt of the signer: the mnemonic is validated, then turned into the seed handed to
\* signPsbtFromSeedInternal; a throw of either is a ValidationError
signPsbtWithMnemonic ==
    /\ pc = "call"
    /\ arg.fn = "signPsbt"
    /\ opName' = "signPsbt"
    /\ IF ~ validateMnemonic(arg.secret)
       THEN /\ SignerThrow("ValidationError", "mnemonic")
            /\ UNCHANGED <<loc, calls>>
       ELSE \E ok \in BOOLEAN :
               /\ calls' = Append(calls, Call("bip39", "mnemonicToSeedSync", ok))
               /\ IF ok
                  THEN /\ loc' = [loc EXCEPT !.signer.seed = mnemonicToSeedSync(arg.secret)]
                       /\ pc' = "sg_internal"
                       /\ UNCHANGED result
                  ELSE /\ SignerThrow("ValidationError", "mnemonic")
                       /\ UNCHANGED loc
    /\ UNCHANGED <<walletFields, engineState, bridge, phase, arg, callerState, nOps>>

signPsbtFromSeed_ValidatesLater ==
    /\ pc = "call"
    /\ arg.fn = "signPsbtFromSeed"
    /\ opName' = "signPsbtFromSeed"
    /\ loc' = [loc EXCEPT !.signer.seed = arg.secret]
    /\ pc' = "sg_internal"
    /\ UNCHANGED <<walletFields, engineState, bridge, phase, arg, calls, result,
                   callerState, nOps>>

\* signPsbtFromSeed: the seed is normalised, then handed to
\* signPsbtFromSeedInternal
signPsbtFromSeed ==
    /\ pc = "call"
    /\ arg.fn = "signPsbtFromSeed"
    /\ opName' = "signPsbtFromSeed"
    /\ LET normalizedSeed == normalizeSeedInput(arg.secret)
       IN  IF ~ normalizedSeed.ok
           THEN /\ SignerThrow("ValidationError", "seed")
                /\ UNCHANGED loc
           ELSE /\ loc' = [loc EXCEPT !.signer.seed = normalizedSeed.seed]
                /\ pc' = "sg_internal"
                /\ UNCHANGED result
    /\ UNCHANGED <<walletFields, engineState, bridge, phase, arg, calls, callerState, nOps>>

\* signPsbtFromSeedInternal up to the fingerprint: validatePsbt may reject a
\* text that is no transaction; the root is derived from the seed
DeriveRoot ==
    /\ pc = "sg_internal"
    /\ \E accepted \in BOOLEAN, ok \in BOOLEAN :
          /\ arg.psbt.parseable => accepted
          /\ IF ~ accepted
             THEN /\ SignerThrow("ValidationError", "psbtBase64")
                  /\ UNCHANGED <<loc, calls>>
             ELSE /\ calls' = Append(calls, Call("bip32", "fromSeed", ok))
                  /\ IF ok
                     THEN /\ loc' = [loc EXCEPT
                                       !.signer.rootNode = loc.signer.seed.root,
                                       !.signer.fp =
                                           calculateMasterFingerprint(loc.signer.seed.root)]
                          /\ pc' = "sg_classify"
                          /\ UNCHANGED result
                     ELSE /\ SignerThrow("CryptoError", "seed")
                          /\ UNCHANGED loc
    /\ UNCHANGED <<walletFields, engineState, bridge, opName, phase, arg, callerState, nOps>>

\* detectPsbtType, deriveDescriptors and bdk.Wallet.create: the descriptor
\* pair follows the classification
Classify ==
    /\ pc = "sg_classify"
    /\ \E ok \in BOOLEAN :
          LET psbtType == detectPsbtTypeOf(arg.psbt)
          IN  /\ calls' = Append(calls, Call("bdk", "Wallet.create", ok))
              /\ loc' = [loc EXCEPT !.signer.psbtType = psbtType,
                                    !.signer.wallet = IF ok THEN psbtType ELSE "none"]
              /\ IF ok
                 THEN /\ pc' = "sg_preprocess"
                      /\ UNCHANGED result
                 ELSE SignerThrow("CryptoError", "wallet")
    /\ UNCHANGED <<walletFields, engineState, bridge, opName, phase, arg, callerState, nOps>>

Preprocess_OnlyWhenSend ==
    loc.signer.psbtType = "send"

\* needsPreprocessing || options.preprocess
Preprocess_Needed ==
    loc.signer.psbtType = "send" \/ arg.preprocess

\* the transaction text is reconciled when the classification or the option
\* asks for it; a throw of preprocessPsbtForBDK is a CryptoError
Preprocess ==
    /\ pc = "sg_preprocess"
    /\ IF Preprocess_Needed
       THEN LET processed == preprocessPsbtForBDK(arg.psbt, loc.signer.rootNode,
                                                  loc.signer.fp, arg.network)
            IN  IF processed.ok
                THEN /\ loc' = [loc EXCEPT !.signer.reconcile = "ran",
                                          !.signer.processed = processed.psbt]
                     /\ pc' = "sg_sign"
                     /\ UNCHANGED result
                ELSE /\ loc' = [loc EXCEPT !.signer.reconcile = "thrown"]
                     /\ SignerThrow("CryptoError", "preprocess")
       ELSE /\ loc' = [loc EXCEPT !.signer.reconcile = "skipped",
                                 !.signer.processed = arg.psbt]
            /\ pc' = "sg_sign"
            /\ UNCHANGED result
    /\ UNCHANGED <<walletFields, engineState, bridge, opName, phase, arg, calls,
                   callerState, nOps>>

\* bdk.Psbt.from_string(processedPsbt) and wallet.sign: the signing engine
\* is handed the processed text, rejects what is no transaction and may
\* reject any other
EngineSign ==
    /\ pc = "sg_sign"
    /\ \E parsed \in BOOLEAN, signed \in BOOLEAN :
          /\ parsed => loc.signer.processed.parseable
          /\ ~ parsed => ~ signed
          /\ loc' = [loc EXCEPT !.signer.engine = loc.signer.processed]
          /\ calls' = Append(calls, Call("bdk", "Psbt.from_string", parsed))
                         \o (IF parsed THEN <<Call("bdk", "sign", signed)>> ELSE << >>)
          /\ IF signed
             THEN /\ result' = [op |-> arg.fn, status |-> "returned",
                                value |-> [NoValue EXCEPT !.kind = "signedPsbt"],
                                err |-> NoErr]
                  /\ pc' = "done"
             ELSE SignerThrow("CryptoError", IF parsed THEN "sign" ELSE "parse")
    /\ UNCHANGED <<walletFields, engineState, bridge, opName, phase, arg, callerState, nOps>>

SignerNext ==
    \/ signPsbtWithMnemonic
    \/ signPsbtFromSeed
    \/ DeriveRoot
    \/ Classify
    \/ Preprocess
    \/ EngineSign

SignerSpec == SignerInit /\ [][SignerNext]_vars

\* ------------------------------------------------------------------------
\* Properties
\* ------------------------------------------------------------------------

\* C1: the wallet engine's submit call is issued, and a transaction is
\* broadcast, only in the End phase of an End operation or of a do-all
\* method; no step of a Begin or of a Sign does either.
C1_SubmitOnlyInEnd ==
    [][ ( \/ broadcast' # broadcast
          \/ /\ Len(calls') > Len(calls)
             /\ calls'[Len(calls')].fn \in {"sendEnd", "createUtxosEnd"} )
        => /\ phase = "End"
           /\ opName \in EndOps \cup DoAllOps ]_vars

\* an End operation returned, having broadcast the transaction it was given
C1_EndSubmitted ==
    /\ pc = "done"
    /\ result.op \in EndOps
    /\ result.status = "returned"
    /\ result.value.psbt \in broadcast

\* C2: a do-all method issues its build call, its sign call and its submit
\* call in that order and at most once each; Sign is attempted only after a
\* successful Begin, End only after a successful Sign, and a do-all that
\* returns has made each of the three calls successfully.
C2_DoAllOrder ==
    opName \in DoAllOps =>
       LET idx == 1..Len(calls)
           B == {i \in idx : calls[i].fn \in {"sendBegin", "createUtxosBegin"}}
           S == {i \in idx : calls[i].fn = "signPsbt"}
           E == {i \in idx : calls[i].fn \in {"sendEnd", "createUtxosEnd"}}
       IN  /\ Cardinality(B) <= 1 /\ Cardinality(S) <= 1 /\ Cardinality(E) <= 1
           /\ \A i \in B : calls[i].phase = "Begin"
           /\ \A i \in S : calls[i].phase = "Sign"
           /\ \A i \in E : calls[i].phase = "End"
           /\ \A j \in S : \E i \in B : i < j /\ calls[i].ok
           /\ \A k \in E : \E j \in S : j < k /\ calls[j].ok
           /\ (phase = "Sign" \/ phase = "End") => \E i \in B : calls[i].ok
           /\ phase = "End" => \E j \in S : calls[j].ok
           /\ (pc = "done" /\ result.status = "returned")
                 => /\ B # {} /\ S # {} /\ E # {}
                    /\ \A i \in B \cup S \cup E : calls[i].ok

\* a do-all method returned after its three phases
C2_DoAllReturned ==
    /\ pc = "done"
    /\ result.op \in DoAllOps
    /\ result.status = "returned"
    /\ Len(calls) >= 3

\* C3: an operation that ended with a failure leaves no receive invoice in
\* the wallet engine without a bridge transfer naming it, has created no
\* bridge transfer without a built send, and no operation makes more than one
\* state-changing external call.
C3_NoHalfUpdate ==
    LET idx == 1..Len(calls)
        Changing == {i \in idx : /\ calls[i].ok
                                 /\ calls[i].fn \in {"witnessReceive", "getBridgeInSignature",
                                                     "sendEnd", "createUtxosEnd"}}
    IN  /\ Cardinality(Changing) <= 1
        /\ (pc = "done" /\ result.status = "thrown") =>
              /\ \A inv \in walletInvoices : \E t \in bridge : t.recipientAddress = inv
              /\ (\E i \in idx : calls[i].fn = "getBridgeInSignature" /\ calls[i].ok)
                    => (\E i \in idx : calls[i].fn \in {"sendBegin", "witnessReceive"}
                                       /\ calls[i].ok)

\* C4: no step of a Begin, Sign or End operation writes a field of the
\* wallet, and an End operation that returns has made exactly one call, the
\* wallet engine's submit of the signed transaction the caller passed.
C4_PhasesKeepNoState ==
    [][ /\ ( \/ opName \in BeginOps \cup {"signPsbt"} \cup EndOps
             \/ opName' \in BeginOps \cup {"signPsbt"} \cup EndOps )
           => UNCHANGED walletFields
        /\ (opName \in EndOps /\ pc # "done" /\ pc' = "done"
               /\ result'.status = "returned")
           => /\ calls' = <<[sys |-> "engine", fn |-> "sendEnd",
                             phase |-> "End", ok |-> TRUE]>>
              /\ arg.psbt \notin broadcast
              /\ broadcast' = broadcast \cup {arg.psbt}
              /\ result'.value.psbt = arg.psbt ]_vars

\* an End operation returned for the signed transaction whose earlier End
\* had failed, with no Begin or Sign in between
C4_EndRetried ==
    /\ pc = "done"
    /\ result.op \in EndOps
    /\ result.status = "returned"
    /\ failedEnd # NoPsbt
    /\ arg.psbt = failedEnd

\* C5: within one invocation no external function is called twice, and a
\* failed call other than the guarded bridge lookup is the invocation's
\* last call: its failure is what the invocation throws.
C5_NoInternalRetry ==
    /\ \A i, j \in 1..Len(calls) : i # j => calls[i].fn # calls[j].fn
    /\ \A i \in 1..Len(calls) :
          (~ calls[i].ok /\ calls[i].fn # "getTransferByMainnetInvoice")
             => /\ i = Len(calls)
                /\ pc = "done"
                /\ result.status = "thrown"

\* a do-all method threw because its sign call or its submit call failed
C5_FailurePropagated ==
    /\ pc = "done"
    /\ result.op \in DoAllOps
    /\ result.status = "thrown"
    /\ Len(calls) > 0
    /\ calls[Len(calls)].fn \in {"signPsbt", "sendEnd"}
    /\ ~ calls[Len(calls)].ok

C7_LookupFailureDegrades ==
    ~ ( /\ pc = "done"
        /\ result.status = "thrown"
        /\ Len(calls) > 0
        /\ calls[Len(calls)].fn \in {"getTransferByMainnetInvoice", "getWithdrawTransfer"}
        /\ ~ calls[Len(calls)].ok
        /\ result.err.type = "AxiosError" )

C9_StatusNullOnMiss ==
    ( /\ opName = "getOnchainSendStatus"
      /\ pc = "done"
      /\ Len(calls) = 2
      /\ calls[2].fn = "getWithdrawTransfer"
      /\ result.value.kind # "status" )
    => /\ result.status = "returned"
       /\ result.value = NullValue

\* C10: in the bridged branch of onchainSendBegin and onchainSend, once the
\* wallet engine has reported a spendable balance below the base-unit amount,
\* the operation has thrown a ValidationError of the balance validation and
\* has not called sendBegin.
C10_InsufficientBalanceFailsFast ==
    ( /\ opName \in OnchainFamily
      /\ loc.bt # NoTransfer
      /\ loc.spendable >= 0
      /\ loc.spendable < loc.amount )
    => /\ pc = "done"
       /\ result.status = "thrown"
       /\ result.err.type = "ValidationError"
       /\ result.err.field \in {"amount", "assetBalance"}
       /\ \A i \in 1..Len(calls) : calls[i].fn # "sendBegin"

\* onchainSendBegin threw for a positive balance below the amount
C10_InsufficientBalance ==
    /\ opName = "onchainSendBegin"
    /\ pc = "done"
    /\ loc.bt # NoTransfer
    /\ loc.spendable > 0
    /\ loc.spendable < loc.amount
    /\ result.err = Err("ValidationError", "amount")

\* C11: in the bridged branch of payLightningInvoiceBegin and
\* payLightningInvoice, as in that of onchainSendBegin, the wallet engine's
\* sendBegin is called only after the spendable balance has been asked for.
C11_LightningChecksBalance ==
    (opName \in LightningFamily /\ loc.bt # NoTransfer) =>
       \A i \in 1..Len(calls) :
          calls[i].fn = "sendBegin"
             => \E j \in 1..(i - 1) : calls[j].fn = "getAssetBalance"

C13_StatusOfMatchingRecipient ==
    (pc = "done" /\ opName \in StatusOps /\ result.status = "returned"
        /\ loc.bt # NoTransfer) =>
       LET recipientId == <<loc.bt.recipientAddress[2], loc.bt.recipientAddress[1]>>
           hits == {k \in 1..Len(loc.transfers) :
                       loc.transfers[k].recipientId = recipientId}
       IN  IF hits = {} THEN result.value.kind = "null"
           ELSE /\ result.value.kind = "status"
                /\ \E k \in hits : result.value.status = loc.transfers[k].status

\* C13 (witness): the local list holds a transfer to another recipient first
\* and the matching one second, and the query has returned the second's status.
C13_SecondEntryMatched ==
    /\ pc = "done"
    /\ opName \in StatusOps
    /\ result.status = "returned"
    /\ Len(loc.transfers) = 2
    /\ loc.transfers[1].recipientId # <<loc.bt.recipientAddress[2], loc.bt.recipientAddress[1]>>
    /\ result.value = StatusValue(loc.transfers[2].status)
    /\ loc.transfers[1].status # loc.transfers[2].status

\* C14: every value a status query returns is null or one of the four status
\* names WaitingCounterparty, WaitingConfirmations, Settled, Failed.
C14_StatusIsNamed ==
    (pc = "done" /\ opName \in StatusOps /\ result.status = "returned") =>
       \/ result.value.kind = "null"
       \/ /\ result.value.kind = "status"
          /\ result.value.status \in {"WaitingCounterparty", "WaitingConfirmations",
                                      "Settled", "Failed"}

\* C15: onchainReceive asks the bridge for a bridge-in signature only after
\* the wallet engine has issued a receive invoice for an empty assetId; the
\* request's destination is that invoice, and the invoice returned to the
\* caller is the decoded payload of the signature the bridge issued for it.
C15_ReceiveOrder ==
    opName = "onchainReceive" =>
       /\ \A i \in 1..Len(calls) :
             calls[i].fn = "getBridgeInSignature" =>
                /\ i = 2
                /\ calls[1] = Call("engine", "witnessReceive", TRUE)
                /\ loc.invoiceAssetId = ""
                /\ loc.sendInvoice \in walletInvoices
       /\ (pc = "done" /\ result.status = "returned") =>
             /\ Len(calls) = 2
             /\ calls[2] = Call("bridge", "getBridgeInSignature", TRUE)
             /\ \E t \in bridge :
                   /\ t.senderNetworkId = networkIdMap.mainnet.networkId
                   /\ t.recipientAddress = loc.sendInvoice
                   /\ t.mainnetInvoice = result.value.invoice

\* C15 (witness): onchainReceive has returned an invoice the bridge issued
\* behind a 0x-less or 0x-prefixed signature.
C15_ReceiveReturned ==
    /\ opName = "onchainReceive"
    /\ pc = "done"
    /\ result.status = "returned"
    /\ result.value.kind = "invoice"
    /\ result.value.invoice # loc.sendInvoice
    /\ loc.sendInvoice \in walletInvoices

\* C16: the transaction a bridged onchainSendBegin returns was built by the
\* wallet engine's sendBegin for the bridge transfer's recipientAmount in base
\* units at the precision of the recipient token; for the recipientAmount
\* "1.500000" of a token of precision 6 the amount is 1500000.
C16_BridgedAmountInBaseUnits ==
    (opName = "onchainSendBegin" /\ pc = "done" /\ result.status = "returned"
        /\ loc.bt # NoTransfer) =>
       LET token == getAssetById(networkIdMap.utexo, loc.bt.recipientTokenId)
       IN  /\ token # NoAsset
           /\ result.value.psbt.amount
                 = toUnitsNumber(loc.bt.recipientAmount, token.precision).val
           /\ (loc.bt.recipientAmount = <<"1", ".", "5", "0", "0", "0", "0", "0">>
                  /\ token.precision = 6)
                 => result.value.psbt.amount = 1500000

\* C16 (witness): a bridged onchainSendBegin has returned a transaction for
\* the recipientAmount "1.500000" of a token of precision 6.
C16_BridgedBeginReturned ==
    /\ opName = "onchainSendBegin"
    /\ pc = "done"
    /\ result.status = "returned"
    /\ loc.bt.recipientAmount = <<"1", ".", "5", "0", "0", "0", "0", "0">>
    /\ getAssetById(networkIdMap.utexo, loc.bt.recipientTokenId).precision = 6
    /\ result.value.psbt.kind = "send"

\* C17: for a decimal text x of either sign with at most p fractional digits
\* and a base-unit value within the safe-integer range, toUnitsNumber(x, p)
\* returns, and fromUnitsNumber of what it returns, at precision p, is the
\* number x writes (compared as the number's canonical decimal text).
C17_RoundTrip ==
    (arg.fn = "toUnitsNumber" /\ pc # "call"
        /\ (arg.int # << >> \/ arg.frac # << >>)
        /\ Len(arg.frac) <= arg.precision
        /\ Len(StripZeros(arg.int)) + arg.precision <= 15) =>
       LET whole == StripZeros(IF arg.int = << >> THEN <<"0">> ELSE arg.int)
           fraction == DropTrailingZeros(arg.frac)
           zero == whole = <<"0">> /\ fraction = << >>
           x == (IF arg.sign = <<"-">> /\ ~ zero THEN <<"-">> ELSE << >>)
                   \o whole
                   \o (IF fraction = << >> THEN << >> ELSE <<".">> \o fraction)
       IN  /\ result.status = "returned"
           /\ pc = "done" => loc.amountText = x

\* C17 (witness): the negative text -12.05 has made the round trip at
\* precision 6, through the base units -12050000.
C17_NegativeRoundTrip ==
    /\ arg.fn = "toUnitsNumber"
    /\ pc = "done"
    /\ arg.value = <<"-", "1", "2", ".", "0", "5">>
    /\ arg.precision = 6
    /\ result.value = 0 - 12050000
    /\ loc.amountText = <<"-", "1", "2", ".", "0", "5">>

\* C18: toUnitsNumber(value, precision) throws, and returns no integer,
\* whenever the base-unit magnitude is above 2^53 - 1: here whenever it has
\* more than 16 digits, or is 2^53 itself (9007199254740992 at precision 0).
C18_OverflowFails ==
    (arg.fn = "toUnitsNumber" /\ pc # "call"
        /\ \/ Len(StripZeros(arg.int)) + arg.precision > 16
           \/ /\ arg.precision = 0
              /\ arg.int = <<"9", "0", "0", "7", "1", "9", "9", "2",
                             "5", "4", "7", "4", "0", "9", "9", "2">>) =>
       /\ pc = "done"
       /\ result.status = "thrown"
       /\ result.err = Err("Error", "MAX_SAFE_INTEGER")
       /\ loc.amountText = << >>

\* C18 (witness): toUnitsNumber("99999999999999999999.123456", 6) has thrown.
C18_OverflowRejected ==
    /\ arg.fn = "toUnitsNumber"
    /\ pc = "done"
    /\ Len(arg.int) = 20
    /\ arg.sign = << >>
    /\ arg.frac = <<"1", "2", "3", "4", "5", "6">>
    /\ arg.precision = 6
    /\ result.status = "thrown"

\* C19: getDestinationAsset(net, net, assetId) returns the asset of net whose
\* assetId is assetId, for every network net of the registry and every
\* assetId in net's asset table.
C19_SameNetworkIdentity ==
    (arg.fn = "getDestinationAsset" /\ pc = "done"
        /\ arg.senderNetwork = arg.destinationNetwork
        /\ \E k \in 1..Len(utexoNetworkIdMap[arg.senderNetwork].assets) :
              utexoNetworkIdMap[arg.senderNetwork].assets[k].assetId = arg.assetId) =>
       /\ result.status = "returned"
       /\ result.value.assetId = arg.assetId
       /\ \E k \in 1..Len(utexoNetworkIdMap[arg.senderNetwork].assets) :
             utexoNetworkIdMap[arg.senderNetwork].assets[k] = result.value

\* C19 (witness): the UTEXO network's asset has been resolved from the UTEXO
\* network to itself.
C19_UtexoToUtexo ==
    /\ arg.fn = "getDestinationAsset"
    /\ pc = "done"
    /\ arg.senderNetwork = "utexo"
    /\ arg.destinationNetwork = "utexo"
    /\ arg.assetId = UTEXO_ASSET
    /\ result.value.assetId = UTEXO_ASSET

\* C20: getDestinationAsset returns undefined, and does not throw, for an
\* assetId that the sender network's asset table does not hold, whatever the
\* sender and the destination network.
C20_AbsentAssetUndefined ==
    (arg.fn = "getDestinationAsset" /\ pc = "done"
        /\ arg.assetId # NULL
        /\ \A k \in 1..Len(utexoNetworkIdMap[arg.senderNetwork].assets) :
              utexoNetworkIdMap[arg.senderNetwork].assets[k].assetId # arg.assetId) =>
       /\ result.status = "returned"
       /\ result.value = NoAsset

\* C20 (witness): the UTEXO network's asset id, which the mainnet table does
\* not hold, has been resolved from mainnet to the UTEXO network as undefined.
C20_ForeignAssetUndefined ==
    /\ arg.fn = "getDestinationAsset"
    /\ pc = "done"
    /\ arg.senderNetwork = "mainnet"
    /\ arg.destinationNetwork = "utexo"
    /\ arg.assetId = UTEXO_ASSET
    /\ result.value = NoAsset

\* C21: decodeBridgeInvoice("0x" + hex) and decodeBridgeInvoice(hex) return
\* the same text, for every hex payload.
C21_PrefixIgnored ==
    (arg.fn = "decodeBridgeInvoice" /\ pc = "done") =>
       /\ result.status = "returned"
       /\ result.value.invoice = loc.sendInvoice
       /\ Len(loc.sendInvoice) = Len(arg.hex)

\* C21 (witness): a two-part invoice has been decoded from its prefixed and
\* from its bare hex payload.
C21_BothDecoded ==
    /\ arg.fn = "decodeBridgeInvoice"
    /\ pc = "done"
    /\ result.value.invoice = <<"binv1", "wvout:">>
    /\ loc.sendInvoice = <<"binv1", "wvout:">>

\* C22: with the parser loaded, the signer classifies a transaction as "send"
\* exactly when it parses and a derivation path of one of its inputs has the
\* reserved asset coin type (827167' or 827166') as a segment, and as
\* "create_utxo" otherwise, unparseable input included.
C22_SendIffReservedSegment ==
    (arg.fn = "detectPsbtType" /\ pc = "done" /\ arg.psbtModule) =>
       LET reserved ==
               /\ arg.psbt.parseable
               /\ \E i \in 1..Len(arg.psbt.inputs) :
                     \E d \in 1..Len(arg.psbt.inputs[i]) :
                        \E s \in 1..Len(arg.psbt.inputs[i][d]) :
                           /\ arg.psbt.inputs[i][d][s].hardened
                           /\ arg.psbt.inputs[i][d][s].index \in {827167, 827166}
       IN  /\ result.status = "returned"
           /\ result.value.status = IF reserved THEN "send" ELSE "create_utxo"

\* C23: two transfer flows for different invoices, interleaved at their
\* awaits, are independent.  A step of one flow leaves the other flow's
\* position, parameters, locals and result as they were; and each flow that
\* returns has submitted, and returns, the signed transaction for its own
\* invoice, built from the responses that flow itself received: in the
\* bridged branch the recipient invoice and amount of the bridge transfer
\* found for its invoice, in the direct branch the invoice and amount the
\* bridge answered to its own request.
C23_FlowsIndependent ==
    [][ /\ parked' # parked =>
              /\ parked' = Context(opName, phase, pc, arg, loc, calls, result)
              /\ Context(opName', phase', pc', arg', loc', calls', result') = parked
        /\ \A c \in {parked', Context(opName', phase', pc', arg', loc', calls', result')} :
              (c.pc = "done" /\ c.result.status = "returned") =>
                 /\ c.result.op = c.opName
                 /\ c.result.value =
                       SendResultValue(
                          [kind |-> "send", invoice |-> c.loc.sendInvoice,
                           amount |-> c.loc.amount, assetId |-> c.loc.assetId,
                           witness |-> c.loc.isWitness, signed |-> TRUE])
                 /\ c.result.value.psbt \in broadcast'
                 /\ IF c.loc.bt # NoTransfer
                    THEN /\ c.loc.bt.mainnetInvoice = c.arg.invoice
                         /\ c.loc.sendInvoice = c.loc.bt.recipientAddress
                    ELSE \E t \in bridge' :
                            /\ t.recipientAddress = c.arg.invoice
                            /\ t.senderNetworkId = networkIdMap.utexo.networkId
      ]_vars

\* C23 (witness): two direct flows overlap.  The flow now at its End asked
\* the bridge first; the other one asked second, ran its Begin, Sign and End
\* while the first was waiting, and has returned.
C23_ReturnedWhileOtherWaits ==
    /\ pc = "sendEnd"
    /\ parked.pc = "done"
    /\ parked.result.status = "returned"
    /\ arg.invoice # parked.arg.invoice
    /\ loc.bt = NoTransfer
    /\ parked.loc.bt = NoTransfer
    /\ \E t, u \in bridge \ InitialBridge :
          /\ t.recipientAddress = arg.invoice
          /\ u.recipientAddress = parked.arg.invoice
          /\ t.id < u.id

\* C24: WalletManager.dispose is idempotent.  A dispose call on a wallet
\* already disposed returns at the disposed test and changes nothing: the
\* mnemonic stays cleared, the handle stays forgotten and the engine is not
\* asked to drop it again.  So a wallet manager that is disposed has had its
\* engine handle dropped exactly once, one that is not has had it dropped
\* never, however many dispose calls were made.
C24_DisposeIdempotent ==
    [][ /\ (disposed /\ disposed') =>
              /\ client'.drops = client.drops
              /\ client'.wallet = client.wallet
              /\ hasMnemonic' = hasMnemonic
        /\ (client'.disposeReturn = "early" /\ client.disposeReturn # "early") =>
              /\ disposed
              /\ UNCHANGED <<preset, initialized, disposed, hasMnemonic,
                             engineState, bridge, opName, phase, pc, arg, loc,
                             calls, result, callerState, nOps>>
        /\ disposed' => (client'.drops = 1 /\ ~ client'.wallet /\ ~ hasMnemonic')
        /\ (initialized' /\ ~ disposed') => (client'.drops = 0 /\ client'.wallet)
      ]_vars

\* C24 (witness): a wallet manager disposed once has been disposed again,
\* and the second call returned early.
C24_DisposedAgain ==
    /\ disposed
    /\ client.disposeReturn = "early"
    /\ client.drops = 1

\* C25: in a status query the withdrawal-history lookup is issued at most
\* once and only directly after the primary bridge lookup answered with no
\* transfer; the wallet engine's transfer list is asked only in a query whose
\* primary lookup found a transfer.
C25_FallbackOnlyAfterMiss ==
    opName \in StatusOps =>
       /\ \A i \in 1..Len(calls) :
             /\ calls[i].fn = "getWithdrawTransfer" =>
                   /\ i = 2
                   /\ calls[1].fn = "getTransferByMainnetInvoice"
                   /\ ~ calls[1].ok
             /\ calls[i].fn = "listTransfers" =>
                   /\ i > 1
                   /\ calls[1].fn = "getTransferByMainnetInvoice"
                   /\ calls[1].ok
       /\ Cardinality({i \in 1..Len(calls) : calls[i].fn = "getWithdrawTransfer"}) <= 1
       /\ Cardinality({i \in 1..Len(calls) :
                          calls[i].fn = "getTransferByMainnetInvoice"}) <= 1

\* C25 (witness): a status query whose primary lookup missed has asked the
\* withdrawal history and returned the status found there.
C25_HistoryAfterMiss ==
    /\ opName \in StatusOps
    /\ pc = "done"
    /\ result.status = "returned"
    /\ result.value # NullValue
    /\ Len(calls) = 2
    /\ calls[2].fn = "getWithdrawTransfer"

\* C26: the send request a Begin hands to the wallet engine carries witness
\* data if and only if the recipientId of the invoice it pays contains the
\* marker "wvout:", in the bridged and in the direct branch alike.
C26_WitnessIffRecipientMarker ==
    (phase = "Begin" /\ pc \in {"sendBegin", "d_sendBegin"}
        /\ Decodable(SendRequest.invoice)) =>
       (SendRequest.witness
           <=> Includes(InvoiceData(SendRequest.invoice).recipientId, "wvout:"))

\* C27: in every Begin path that checks the balance, the base-unit amount
\* compared against the spendable balance is the amount of the send request
\* then handed to the wallet engine's sendBegin.
C27_CheckedAmountIsSentAmount ==
    (phase = "Begin" /\ pc \in {"sendBegin", "d_sendBegin"} /\ loc.checked # -1) =>
       loc.checked = SendRequest.amount

\* C28: an operation invoked before initialize() has completed throws
\* WalletError('Wallet not initialized. Call initialize() first.') and makes
\* no call to the bridge service or to the wallet engine.
C28_UninitializedThrows ==
    (~ initialized /\ pc # "idle") =>
       /\ pc = "done"
       /\ result.status = "thrown"
       /\ result.err = NotInitialized
       /\ calls = << >>

\* C29: once dispose() has completed the disposed flag never becomes false
\* again, and every later operation on the wallet fails with
\* WalletError('Wallet has been disposed') having made no call to the wallet
\* engine, the bridge service or the signing engine.
C29_DisposedStaysAndFailsFast ==
    [][ /\ disposed => disposed'
        /\ (disposed' /\ pc' # "idle") =>
              /\ pc' = "done"
              /\ result'.status = "thrown"
              /\ result'.err = WalletDisposed
              /\ calls' = << >>
      ]_vars

\* C30: getWithdrawTransfer(invoice, networkId) returns a transfer, not
\* null, whenever the bridge's transfer history for that network contains an
\* entry whose recipient address equals the invoice.
C30_HistoryEntryFound ==
    (/\ opName \in StatusOps
     /\ pc = "done"
     /\ Len(calls) = 2
     /\ calls[2] = Call("bridge", "getWithdrawTransfer", TRUE)
     /\ \E t \in History(bridge, networkIdMap.utexo.networkId) :
           t.recipientAddress = arg.invoice)
       => (result.status = "returned" /\ result.value # NullValue)

\* C31: within one operation every asset resolution and every network id
\* comes from the preset the wallet was constructed with; no operation reads
\* the table of another preset.
C31_OnePresetPerOperation ==
    loc.tables \subseteq {preset}

\* C32: the status queries and listings issue only read calls, and no step
\* of them changes what the wallet engine or the bridge holds.
C32_StatusQueriesReadOnly ==
    [][ (opName' \in StatusOps \cup {"listOnchainTransfers"}) =>
           /\ \A i \in 1..Len(calls') :
                 calls'[i].fn \in {"getTransferByMainnetInvoice", "getWithdrawTransfer",
                                   "decodeRGBInvoice", "listTransfers"}
           /\ UNCHANGED <<engineState, bridge>>
      ]_vars

\* C32 (witness): a status query has gone through the bridge lookup, the
\* decoding and the engine's transfer list and has returned a status, next
\* to invoices and transfers the engine and the bridge already hold.
C32_StatusReadFromList ==
    /\ opName \in StatusOps
    /\ pc = "done"
    /\ result.status = "returned"
    /\ result.value.kind = "status"
    /\ Len(calls) = 3
    /\ calls[3].fn = "listTransfers"
    /\ walletInvoices # {}

\* C33: for a non-null sourceAssetId the resolution returns an asset of the
\* destination network whose tokenId is the tokenId of the source network's
\* asset with that id, and returns undefined exactly when the source network
\* has no asset with that id or the destination network none with that
\* tokenId.
C33_ResolvedByTokenId ==
    (arg.fn = "getDestinationAsset" /\ pc = "done" /\ arg.assetId # NULL) =>
       LET S == utexoNetworkIdMap[arg.senderNetwork].assets
           D == utexoNetworkIdMap[arg.destinationNetwork].assets
           sources == {k \in 1..Len(S) : S[k].assetId = arg.assetId}
           matches == {j \in 1..Len(D) : \E k \in sources : D[j].tokenId = S[k].tokenId}
       IN  /\ result.status = "returned"
           /\ (result.value = NoAsset) <=> (matches = {})
           /\ matches # {} => \E j \in matches : result.value = D[j]

\* C33 (witness): the RGB asset of the mainnet network has been resolved to
\* the UTEXO network's asset, which has another asset id and the same tokenId.
C33_MainnetAssetToUtexoAsset ==
    /\ arg.fn = "getDestinationAsset"
    /\ pc = "done"
    /\ arg.senderNetwork = "mainnet"
    /\ arg.destinationNetwork = "utexo"
    /\ arg.assetId = RGB_ASSET
    /\ result.value.assetId = UTEXO_ASSET
    /\ result.value.tokenId = 4

\* C34: the reconcile step runs for every transaction classified asset-send
\* and for no transaction classified utxo-creation, and a utxo-creation
\* transaction reaches the signing engine with its derivation metadata
\* unchanged.
C34_ReconcileIffAssetSend ==
    /\ loc.signer.reconcile # "none" =>
          (loc.signer.reconcile \in {"ran", "thrown"} <=> loc.signer.psbtType = "send")
    /\ (pc = "done" /\ loc.signer.reconcile \in {"ran", "skipped"}
          /\ loc.signer.psbtType = "create_utxo") => loc.signer.engine = arg.psbt

\* C34 (amended): the reconcile step runs exactly when the transaction is
\* classified asset-send or the caller set options.preprocess; a
\* utxo-creation transaction signed without that option reaches the signing
\* engine as it was handed in.
C34_ReconcileIffSendOrForced ==
    /\ loc.signer.reconcile # "none" =>
          (loc.signer.reconcile \in {"ran", "thrown"}
              <=> (loc.signer.psbtType = "send" \/ arg.preprocess))
    /\ (pc = "done" /\ loc.signer.reconcile \in {"ran", "skipped"}
          /\ loc.signer.psbtType = "create_utxo" /\ ~ arg.preprocess)
         => loc.signer.engine = arg.psbt

\* C34 (witness): a utxo-creation transaction whose entry carries another
\* root's key was signed without the option and reached the engine as it
\* was, and its entry would have been rewritten by the reconcile step.
C34_UtxoCreationUntouched ==
    /\ pc = "done"
    /\ result.status = "returned"
    /\ loc.signer.psbtType = "create_utxo"
    /\ ~ arg.preprocess
    /\ loc.signer.reconcile = "skipped"
    /\ loc.signer.engine = arg.psbt
    /\ preprocessPsbtForBDK(arg.psbt, loc.signer.rootNode, loc.signer.fp, arg.network).psbt
          # arg.psbt

\* C35: after the reconcile step, for every input and every Taproot entry of
\* it whose path can be walked from the root, the entry's public key and
\* master fingerprint and the input's internal key and output script equal
\* the values recomputed from that entry's path.
C35_EveryEntryReconciled ==
    loc.signer.reconcile = "ran" =>
       \A i \in 1..Len(arg.psbt.inputs) :
          \A d \in 1..Len(arg.psbt.inputs[i].tapBip32Derivation) :
             LET node == derivePath(loc.signer.rootNode,
                                    PathStr(arg.psbt.inputs[i].tapBip32Derivation[d].path))
                 xOnly == toXOnly(node.publicKey)
                 input == loc.signer.processed.inputs[i]
             IN  node.ok =>
                    /\ input.tapBip32Derivation[d].pubkey = xOnly
                    /\ input.tapBip32Derivation[d].masterFingerprint = loc.signer.fp
                    /\ input.tapInternalKey = xOnly
                    /\ input.script = p2tr(xOnly, "testnet")

\* C35 (amended): after the reconcile step every Taproot entry whose path
\* can be walked carries the public key recomputed from its own path and
\* the root's fingerprint; the input's internal key, and its output script
\* when the input has a witnessUtxo, are those recomputed from the path of
\* the input's last entry that can be walked.
C35_EntriesOwnKeyInputLastKey ==
    loc.signer.reconcile = "ran" =>
       \A i \in 1..Len(arg.psbt.inputs) :
          LET entries == arg.psbt.inputs[i].tapBip32Derivation
              input == loc.signer.processed.inputs[i]
              walked == {d \in 1..Len(entries) :
                           derivePath(loc.signer.rootNode, PathStr(entries[d].path)).ok}
          IN  \A d \in walked :
                 LET xOnly == toXOnly(derivePath(loc.signer.rootNode,
                                                 PathStr(entries[d].path)).publicKey)
                 IN  /\ input.tapBip32Derivation[d].pubkey = xOnly
                     /\ input.tapBip32Derivation[d].masterFingerprint = loc.signer.fp
                     /\ (\A later \in walked : later <= d) =>
                           /\ input.tapInternalKey = xOnly
                           /\ input.witnessUtxo => input.script = p2tr(xOnly, "testnet")

\* C35 (witness): an input with a witnessUtxo and two entries of another
\* root, on two different paths that both can be walked, was reconciled.
C35_TwoEntriesReconciled ==
    /\ loc.signer.reconcile = "ran"
    /\ Len(arg.psbt.inputs) = 1
    /\ arg.psbt.inputs[1].witnessUtxo
    /\ Len(arg.psbt.inputs[1].tapBip32Derivation) = 2
    /\ arg.psbt.inputs[1].tapBip32Derivation[1].path = TEXT_RGB_TWICE
    /\ arg.psbt.inputs[1].tapBip32Derivation[2].path = ARRAY_RGB_ZERO
    /\ arg.psbt.inputs[1].tapBip32Derivation[1].pubkey = StaleKey
    /\ loc.signer.processed.inputs[1].tapBip32Derivation[1].pubkey.root = ROOT
    /\ loc.signer.processed.inputs[1].tapInternalKey.root = ROOT

\* C36: during reconciliation an entry whose path cannot be walked from the
\* root is skipped: the step does not throw, the entry keeps its key and
\* fingerprint, every entry that can be walked is still reconciled, and the
\* processed transaction is still handed to the signing engine.
C36_UnwalkableEntrySkipped ==
    \A i \in 1..Len(arg.psbt.inputs) :
       \A d \in 1..Len(arg.psbt.inputs[i].tapBip32Derivation) :
          ( /\ loc.signer.reconcile # "none"
            /\ Preprocess_Needed
            /\ ~ derivePath(loc.signer.rootNode,
                            PathStr(arg.psbt.inputs[i].tapBip32Derivation[d].path)).ok )
          => /\ loc.signer.reconcile = "ran"
             /\ loc.signer.processed.inputs[i].tapBip32Derivation[d].pubkey
                   = arg.psbt.inputs[i].tapBip32Derivation[d].pubkey
             /\ loc.signer.processed.inputs[i].tapBip32Derivation[d].masterFingerprint
                   = arg.psbt.inputs[i].tapBip32Derivation[d].masterFingerprint
             /\ \A j \in 1..Len(arg.psbt.inputs) :
                   \A e \in 1..Len(arg.psbt.inputs[j].tapBip32Derivation) :
                      LET node == derivePath(loc.signer.rootNode,
                                     PathStr(arg.psbt.inputs[j].tapBip32Derivation[e].path))
                      IN  node.ok =>
                             /\ loc.signer.processed.inputs[j].tapBip32Derivation[e].pubkey
                                   = toXOnly(node.publicKey)
                             /\ loc.signer.processed.inputs[j].tapBip32Derivation[e]
                                   .masterFingerprint = loc.signer.fp
             /\ pc = "done" =>
                   /\ loc.signer.engine = loc.signer.processed
                   /\ \E c \in 1..Len(calls) : calls[c].fn = "Psbt.from_string"

\* C36 (witness): the first input's path has three root prefixes and cannot
\* be walked, the second input's can; the first kept the other root's key,
\* the second was reconciled, and the engine signed the transaction.
C36_SecondInputStillReconciled ==
    /\ pc = "done"
    /\ result.status = "returned"
    /\ loc.signer.reconcile = "ran"
    /\ Len(arg.psbt.inputs) = 2
    /\ arg.psbt.inputs[1].tapBip32Derivation[1].path = TEXT_RGB_THRICE
    /\ arg.psbt.inputs[2].tapBip32Derivation[1].path = TEXT_RGB
    /\ loc.signer.processed.inputs[1].tapBip32Derivation[1].pubkey = StaleKey
    /\ loc.signer.processed.inputs[2].tapBip32Derivation[1].pubkey.root = ROOT
    /\ loc.signer.processed.inputs[2].tapInternalKey.root = ROOT

\* C37: signing with a malformed mnemonic (signPsbt) or a malformed seed
\* (signPsbtFromSeed) ends in a ValidationError, and no key derivation, no
\* classification and no call of the signing engine has been made.
C37_MalformedSecretFailsFirst ==
    (pc # "call" /\ ~ arg.secret.wellFormed) =>
       /\ pc = "done"
       /\ result.status = "thrown"
       /\ result.err.type = "ValidationError"
       /\ result.err.field = (IF arg.fn = "signPsbt" THEN "mnemonic" ELSE "seed")
       /\ calls = << >>
       /\ loc.signer.rootNode = "none"
       /\ loc.signer.psbtType = "none"
       /\ loc.signer.reconcile = "none"

\* C37 (witness): signPsbtFromSeed was handed a malformed seed together
\* with an asset-send transaction, and has thrown.
C37_MalformedSeedRejected ==
    /\ arg.fn = "signPsbtFromSeed"
    /\ ~ arg.secret.wellFormed
    /\ detectPsbtTypeOf(arg.psbt) = "send"
    /\ pc = "done"
    /\ result.status = "thrown"

\* C39: normalizePath is idempotent: normalising what normalizePath returned
\* changes nothing, for path texts and for index arrays.
C39_NormalizePathIdempotent ==
    (arg.fn = "normalizePath" /\ pc = "done") => loc.paths[2] = loc.paths[1]

====
